---- MODULE Spec2Model ----
(***************************************************************************)
(* Alignment and speaker-identity engine of the hybrid speech recogniser   *)
(* (src/authenticated_hybrid_diarization.py): the global speaker registry, *)
(* the per-word overlap resolver of combine_results, the aggregator of     *)
(* display_results and the per-window fusion of processing_worker.         *)
(*                                                                         *)
(* Times are integers counted in ticks of 1/TicksPerSecond seconds; the    *)
(* code compares and subtracts floats, which is exact on such a grid.      *)
(* Python dicts are functions with a finite domain, lists are sequences,   *)
(* str values that the code strips or splits are sequences of characters.  *)
(***************************************************************************)
EXTENDS Integers, Sequences, FiniteSets, TLC

VARIABLES
    \* AuthenticatedHybridDiarization fields (__init__, lines 64-68)
    global_speaker_mapping,     \* dict: pyannote label -> global id
    next_global_speaker_id,     \* int
    speaker_stats,              \* dict: global id -> word count
    \* observations of the registry calls made so far
    last_call,                  \* the last registry call: [op, label, ret]
    prev_op,                    \* op of the call before it
    first_id,                   \* label -> id returned by its first resolve since the last reset
    pre_reset_mapping,          \* the mapping as it was when the last reset began
    \* threads that run process_pyannote at the same time
    pc,                         \* thread -> its position in get_global_speaker_id
    tracks,                     \* thread -> labels of the diarization tracks still to map
    global_id,                  \* thread -> local variable global_id
    incr_tmp,                   \* thread -> value loaded by "next_global_speaker_id += 1"
    gui_pc,                     \* position of the GUI thread in upload_audio_file
    stale,                      \* thread -> its process_pyannote began before the last reset
    uploads,                    \* files uploaded so far
    issued,                     \* <<label, id>> pairs returned since the last reset
    \* one run of the per-word loop body of combine_results
    word_in,                    \* word_data: [word, start_time, end_time]
    turns_in,                   \* pyannote_results: <<segment_start, segment_end, speaker_id>>
    attributed,                 \* best_speaker once the loop body has run
    attributed_done,            \* the loop body has run
    \* one window of processing_worker after the other
    google_results,             \* what process_google returned for the window
    diarization,                \* tracks the pipeline yielded: <<start, end, label>>
    pyannote_results,           \* what process_pyannote returned: <<start, end, global id>>
    combined,                   \* combined_results of the window
    conversations,              \* conversations built by display_results
    branch,                     \* branch taken by lines 668-683
    transcript_text,            \* lines the window inserted into the transcript widget
    raised,                     \* collaborators whose call raised in the window
    \* the recording session: GUI thread, audio callback and processing workers
    is_recording,               \* bool
    audio_queue,                \* queue.Queue of chunks, oldest first
    stream,                     \* the PyAudio stream: "none", "active" or "closed"
    pyaudio_instance,           \* "none", "live" or "terminated"
    processing_thread,          \* the worker started last, 0 if none
    worker_pc,                  \* worker -> its position in processing_worker
    audio_buffer,               \* worker -> its local audio_buffer
    gui,                        \* position of the GUI thread: "idle" or "joining"
    captured,                   \* chunks the callback has enqueued so far
    fused,                      \* the windows fused and displayed so far, in order
    log,                        \* what the last start_recording logged, "none" if none ran
    \* the services of setup_services: TRUE for a client or pipeline, FALSE for None
    speech_client,
    diarization_pipeline,
    program,                    \* the program the run is of: "hybrid", "streaming" or "google"
    \* one run of the duplicate-word filter of process_speaker_diarization
    \* (src/speaker-test-1.py)
    words_info,                 \* the words of the response, as lines 698-703 collect them
    filtered_words,             \* filtered_words once the filter has run
    filter_done,                \* the filter has run
    \* the streaming recorder (src/speaker-test-1.py), which has the fields
    \* is_recording, audio_queue, audio_buffer, stream, pyaudio_instance too
    retry_count,                \* local of transcription_worker
    stop_ended                  \* who ran the stop_recording that ended last, "none" if none

regVars == <<global_speaker_mapping, next_global_speaker_id, speaker_stats>>
obsVars == <<last_call, prev_op, first_id, pre_reset_mapping>>
concVars == <<pc, tracks, global_id, incr_tmp, gui_pc, stale, uploads, issued>>
resVars == <<word_in, turns_in, attributed, attributed_done>>
winVars == <<google_results, diarization, pyannote_results, combined, conversations, branch,
            transcript_text, raised>>
workVars == <<is_recording, audio_queue, stream, pyaudio_instance, processing_thread,
             worker_pc, audio_buffer, gui, captured, fused, log>>
svcVars == <<speech_client, diarization_pipeline, program>>
filterVars == <<words_info, filtered_words, filter_done>>
streamVars == <<retry_count, stop_ended>>
vars == <<regVars, obsVars, concVars, resVars, winVars, workVars, streamVars, svcVars,
          filterVars>>

\* what the runs of one part of the program leave alone
notRegistry == <<concVars, resVars, winVars, workVars, streamVars, svcVars, filterVars>>
notThreads == <<obsVars, resVars, winVars, workVars, streamVars, svcVars, filterVars>>
notResolver == <<regVars, obsVars, concVars, winVars, workVars, streamVars, svcVars, filterVars>>
notWindow == <<obsVars, concVars, resVars, workVars, streamVars, svcVars, filterVars>>
notWorker == <<regVars, obsVars, concVars, resVars, winVars, streamVars, svcVars, filterVars>>
notStreaming == <<regVars, obsVars, concVars, resVars, winVars, svcVars, filterVars>>

-----------------------------------------------------------------------------
(* Bounds and domains *)

NumLabels == 4

LabelNames == <<"SPEAKER_00", "SPEAKER_01", "SPEAKER_02", "SPEAKER_03", "SPEAKER_04", "SPEAKER_05">>

\* the pyannote labels the registry is asked about
Labels == {LabelNames[i] : i \in 1..NumLabels}

EmptyDict == [k \in {} |-> 0]

NoLabel == "-"

\* the live processing worker and the file-upload thread
Threads == {"live", "upload"}

\* diarization tracks of one process_pyannote call in the threaded runs
MaxTracks == 2

ConcLabels == {LabelNames[1], LabelNames[2]}

\* files uploaded in one threaded run
MaxUploads == 1

\* one second, in ticks
TicksPerSecond == 10

\* times of the enumerated words and turns of the resolver runs: 0..MaxTime ticks
MaxTime == 4

\* turns per enumerated resolver input
MaxTurns == 2

\* global speaker ids carried by the enumerated turns
TurnSpeakers == {0, 1}

\* words per enumerated recognition result
MaxWords == 2

\* diarization tracks per enumerated window
MaxWindowTurns == 2

\* a window is processed while fewer words than this have been counted
MaxCounted == 3

\* recordings started in one run; each starts a processing worker
MaxSessions == 2

Workers == 1..MaxSessions

\* chunks the audio callback delivers in one run
MaxChunks == 4

\* chunks of a full window: int(buffer_duration * RATE / CHUNK) of line 627 is
\* 78; the window is scaled down
max_chunks == 2

\* chunks of 30 seconds: int(30 * RATE / CHUNK) of src/speaker-test-1.py,
\* lines 613 and 817, is 468; scaled down
max_buffer_chunks == 2

RECURSIVE SeqsUpTo(_, _)
\* all sequences over S of length 0..n
SeqsUpTo(S, n) ==
    IF n = 0 THEN {<< >>}
    ELSE LET shorter == SeqsUpTo(S, n - 1) IN
         shorter \cup {Append(q, x) : q \in {r \in shorter : Len(r) = n - 1}, x \in S}

-----------------------------------------------------------------------------
(* Global speaker identity registry *)

\* get_global_speaker_id with the lookup left out: every call allocates.
get_global_speaker_id_always_allocates(mapping, next_id, pyannote_speaker) ==
    [ret |-> next_id,
     mapping |-> [l \in DOMAIN mapping \cup {pyannote_speaker} |->
                    IF l = pyannote_speaker THEN next_id ELSE mapping[l]],
     next_id |-> next_id + 1]

\* get_global_speaker_id with the increment of the counter left out.
get_global_speaker_id_no_increment(mapping, next_id, pyannote_speaker) ==
    IF pyannote_speaker \in DOMAIN mapping
    THEN [ret |-> mapping[pyannote_speaker], mapping |-> mapping, next_id |-> next_id]
    ELSE [ret |-> next_id,
          mapping |-> [l \in DOMAIN mapping \cup {pyannote_speaker} |->
                         IF l = pyannote_speaker THEN next_id ELSE mapping[l]],
          next_id |-> next_id]

\* get_global_speaker_id(self, pyannote_speaker, start_time, end_time, audio_file):
\* start_time, end_time and audio_file are never read.  The result is the
\* returned id together with the two fields as the call leaves them.
get_global_speaker_id(mapping, next_id, pyannote_speaker) ==
    IF pyannote_speaker \in DOMAIN mapping
    THEN [ret |-> mapping[pyannote_speaker], mapping |-> mapping, next_id |-> next_id]
    ELSE [ret |-> next_id,
          mapping |-> [l \in DOMAIN mapping \cup {pyannote_speaker} |->
                         IF l = pyannote_speaker THEN next_id ELSE mapping[l]],
          next_id |-> next_id + 1]

\* reset_speakers that clears the mapping and keeps the counter.
reset_speakers_keeps_counter(mapping, next_id, stats) ==
    [mapping |-> EmptyDict, next_id |-> next_id, stats |-> EmptyDict]

\* reset_speakers that resets the counter and keeps the mapping.
reset_speakers_keeps_mapping(mapping, next_id, stats) ==
    [mapping |-> mapping, next_id |-> 0, stats |-> EmptyDict]

\* reset_speakers(self): clears the mapping, the counter, the (never written)
\* voice profiles and the statistics.
reset_speakers(mapping, next_id, stats) ==
    [mapping |-> EmptyDict, next_id |-> 0, stats |-> EmptyDict]

-----------------------------------------------------------------------------
(* The registry called one call at a time *)

ObsIdle ==
    /\ last_call = [op |-> "none", label |-> NoLabel, ret |-> -1]
    /\ prev_op = "none"
    /\ first_id = EmptyDict
    /\ pre_reset_mapping = EmptyDict

ConcIdle ==
    /\ pc = [t \in Threads |-> "idle"]
    /\ tracks = [t \in Threads |-> << >>]
    /\ global_id = [t \in Threads |-> -1]
    /\ incr_tmp = [t \in Threads |-> -1]
    /\ gui_pc = "idle"
    /\ stale = [t \in Threads |-> FALSE]
    /\ uploads = 0
    /\ issued = {}

ResIdle ==
    /\ word_in = [word |-> << >>, start_time |-> 0, end_time |-> 0]
    /\ turns_in = << >>
    /\ attributed = -1
    /\ attributed_done = FALSE

WorkIdle ==
    /\ is_recording = FALSE
    /\ audio_queue = << >>
    /\ stream = "none"
    /\ pyaudio_instance = "none"
    /\ processing_thread = 0
    /\ worker_pc = [w \in Workers |-> "unborn"]
    /\ audio_buffer = [w \in Workers |-> << >>]
    /\ gui = "idle"
    /\ captured = 0
    /\ fused = << >>
    /\ log = "none"

FilterIdle ==
    /\ words_info = << >>
    /\ filtered_words = << >>
    /\ filter_done = FALSE

\* setup_services, lines 219-291, left both services ready
SvcReady ==
    /\ speech_client = TRUE
    /\ diarization_pipeline = TRUE
    /\ program = "hybrid"

StreamIdle ==
    /\ retry_count = 0
    /\ stop_ended = "none"
    /\ FilterIdle

WinIdle ==
    /\ google_results = << >>
    /\ diarization = << >>
    /\ pyannote_results = << >>
    /\ combined = << >>
    /\ conversations = << >>
    /\ branch = "collecting"
    /\ transcript_text = << >>
    /\ raised = {}

InitRegistry ==
    /\ global_speaker_mapping = EmptyDict
    /\ next_global_speaker_id = 0
    /\ speaker_stats = EmptyDict
    /\ ObsIdle
    /\ ConcIdle
    /\ ResIdle
    /\ WinIdle
    /\ WorkIdle
    /\ StreamIdle
    /\ SvcReady

Resolve(label) ==
    LET r == get_global_speaker_id(global_speaker_mapping, next_global_speaker_id, label) IN
    /\ global_speaker_mapping' = r.mapping
    /\ next_global_speaker_id' = r.next_id
    /\ last_call' = [op |-> "resolve", label |-> label, ret |-> r.ret]
    /\ prev_op' = last_call.op
    /\ first_id' = IF label \in DOMAIN first_id THEN first_id
                   ELSE [l \in DOMAIN first_id \cup {label} |->
                           IF l = label THEN r.ret ELSE first_id[l]]
    /\ UNCHANGED <<speaker_stats, pre_reset_mapping, notRegistry>>

ResetSpeakers ==
    LET r == reset_speakers(global_speaker_mapping, next_global_speaker_id, speaker_stats) IN
    /\ global_speaker_mapping' = r.mapping
    /\ next_global_speaker_id' = r.next_id
    /\ speaker_stats' = r.stats
    /\ last_call' = [op |-> "reset", label |-> NoLabel, ret |-> -1]
    /\ prev_op' = last_call.op
    /\ first_id' = EmptyDict
    /\ pre_reset_mapping' = global_speaker_mapping
    /\ UNCHANGED notRegistry

NextRegistry ==
    \/ \E label \in Labels : Resolve(label)
    \/ ResetSpeakers

SpecRegistry == InitRegistry /\ [][NextRegistry]_vars

-----------------------------------------------------------------------------
(* C1: between two resets every resolve of a label returns the id that the *)
(* first resolve of that label returned.                                    *)
C1_SameLabelSameId ==
    last_call.op = "resolve" =>
        /\ last_call.label \in DOMAIN first_id
        /\ last_call.ret = first_id[last_call.label]

\* a label resolved again, after another label was allocated in between
C1_Witness ==
    /\ last_call.op = "resolve"
    /\ prev_op = "resolve"
    /\ next_global_speaker_id >= 2
    /\ last_call.ret = first_id[last_call.label]
    /\ last_call.ret < next_global_speaker_id - 1

(* C2: resolve is lookup-or-allocate: a known label returns its stored id  *)
(* and changes nothing; a new label returns next_id, is stored under it,    *)
(* and next_id grows by exactly 1.                                          *)
C2_LookupOrAllocate ==
    [][last_call'.op = "resolve" =>
        LET L == last_call'.label IN
        IF L \in DOMAIN global_speaker_mapping
        THEN /\ last_call'.ret = global_speaker_mapping[L]
             /\ global_speaker_mapping' = global_speaker_mapping
             /\ next_global_speaker_id' = next_global_speaker_id
        ELSE /\ last_call'.ret = next_global_speaker_id
             /\ DOMAIN global_speaker_mapping' = DOMAIN global_speaker_mapping \cup {L}
             /\ global_speaker_mapping'[L] = next_global_speaker_id
             /\ \A l \in DOMAIN global_speaker_mapping :
                    global_speaker_mapping'[l] = global_speaker_mapping[l]
             /\ next_global_speaker_id' = next_global_speaker_id + 1]_vars

\* both cases have happened: the last call looked a label up, and next_id
\* counts the allocations made before it
C2_Witness ==
    /\ last_call.op = "resolve"
    /\ prev_op = "resolve"
    /\ next_global_speaker_id = 3
    /\ last_call.ret = 1

(* C3: after reset the mapping is empty and next_id is 0, the next resolve *)
(* returns 0 for any label, also one that had another id before, and a      *)
(* second reset changes nothing.                                            *)
C3_ResetThenZero ==
    /\ last_call.op = "reset" =>
        /\ global_speaker_mapping = EmptyDict
        /\ next_global_speaker_id = 0
        /\ reset_speakers(global_speaker_mapping, next_global_speaker_id, speaker_stats)
             = [mapping |-> global_speaker_mapping, next_id |-> next_global_speaker_id,
                stats |-> speaker_stats]
    /\ (last_call.op = "resolve" /\ prev_op = "reset") => last_call.ret = 0

\* a label that had id 2 before the reset is resolved to 0 right after it
C3_Witness ==
    /\ last_call.op = "resolve"
    /\ prev_op = "reset"
    /\ last_call.label \in DOMAIN pre_reset_mapping
    /\ pre_reset_mapping[last_call.label] = 2
    /\ last_call.ret = 0

-----------------------------------------------------------------------------
(* The live processing worker and a file-upload thread, both inside         *)
(* process_pyannote.  No lock guards the registry, so the statements of     *)
(* get_global_speaker_id of the two threads interleave: one action is one   *)
(* read or write of a shared field.  The fusion and display that follow     *)
(* process_pyannote in either thread do not touch the registry and are left *)
(* out of these runs.                                                       *)

InitThreads ==
    /\ global_speaker_mapping = EmptyDict
    /\ next_global_speaker_id = 0
    /\ speaker_stats = EmptyDict
    /\ ObsIdle
    /\ ConcIdle
    /\ ResIdle
    /\ WinIdle
    /\ WorkIdle
    /\ StreamIdle
    /\ SvcReady

\* the label of the track that thread t is mapping
CurLabel(t) == Head(tracks[t])

InFlight(t) == pc[t] # "idle"

\* processing_worker, line 656: the live worker calls process_pyannote on a
\* window whose diarization yields the tracks `labels`
LiveProcessPyannote(labels) ==
    /\ pc["live"] = "idle"
    /\ labels # << >>
    /\ tracks' = [tracks EXCEPT !["live"] = labels]
    /\ pc' = [pc EXCEPT !["live"] = "contains"]
    /\ stale' = [stale EXCEPT !["live"] = FALSE]
    /\ UNCHANGED <<notThreads, regVars, global_id, incr_tmp, gui_pc, uploads, issued>>

\* upload_audio_file, lines 362-363: clear_all, then the first statement of
\* reset_speakers (the mapping is cleared)
UploadClear ==
    /\ gui_pc = "idle"
    /\ pc["upload"] = "idle"
    /\ uploads < MaxUploads
    /\ speaker_stats' = EmptyDict
    /\ global_speaker_mapping' = EmptyDict
    /\ gui_pc' = "reset_counter"
    /\ stale' = [t \in Threads |-> stale[t] \/ InFlight(t)]
    /\ issued' = {}
    /\ UNCHANGED <<notThreads, next_global_speaker_id, pc, tracks, global_id, incr_tmp, uploads>>

\* upload_audio_file, lines 363-368: the rest of reset_speakers, then the
\* upload thread starts process_uploaded_file, which calls process_pyannote
UploadResetAndStart(labels) ==
    /\ gui_pc = "reset_counter"
    /\ next_global_speaker_id' = 0
    /\ speaker_stats' = EmptyDict
    /\ gui_pc' = "idle"
    /\ uploads' = uploads + 1
    /\ tracks' = [tracks EXCEPT !["upload"] = labels]
    /\ pc' = [pc EXCEPT !["upload"] = IF labels = << >> THEN "idle" ELSE "contains"]
    /\ stale' = [t \in Threads |-> IF t = "upload" THEN FALSE ELSE stale[t] \/ InFlight(t)]
    /\ issued' = {}
    /\ UNCHANGED <<notThreads, global_speaker_mapping, global_id, incr_tmp>>

\* get_global_speaker_id returns id to process_pyannote, which goes on with
\* the next track or returns
Returned(t, id) ==
    /\ issued' = IF stale[t] THEN issued ELSE issued \cup {<<CurLabel(t), id>>}
    /\ tracks' = [tracks EXCEPT ![t] = Tail(tracks[t])]
    /\ pc' = [pc EXCEPT ![t] = IF Tail(tracks[t]) = << >> THEN "idle" ELSE "contains"]
    /\ global_id' = [global_id EXCEPT ![t] = -1]
    /\ incr_tmp' = [incr_tmp EXCEPT ![t] = -1]

\* line 803: if pyannote_speaker in self.global_speaker_mapping
Contains(t) ==
    /\ pc[t] = "contains"
    /\ pc' = [pc EXCEPT ![t] = IF CurLabel(t) \in DOMAIN global_speaker_mapping
                               THEN "subscr" ELSE "load_next"]
    /\ UNCHANGED <<notThreads, regVars, tracks, global_id, incr_tmp, gui_pc, stale, uploads, issued>>

\* line 804: return self.global_speaker_mapping[pyannote_speaker]
Subscr(t) ==
    /\ pc[t] = "subscr"
    /\ CurLabel(t) \in DOMAIN global_speaker_mapping
    /\ Returned(t, global_speaker_mapping[CurLabel(t)])
    /\ UNCHANGED <<notThreads, regVars, gui_pc, stale, uploads>>

\* line 804 after the mapping was cleared under the thread: KeyError, caught
\* by process_pyannote (lines 795-797), which returns []
SubscrKeyError(t) ==
    /\ pc[t] = "subscr"
    /\ CurLabel(t) \notin DOMAIN global_speaker_mapping
    /\ tracks' = [tracks EXCEPT ![t] = << >>]
    /\ pc' = [pc EXCEPT ![t] = "idle"]
    /\ UNCHANGED <<notThreads, regVars, global_id, incr_tmp, gui_pc, stale, uploads, issued>>

\* line 808: global_id = self.next_global_speaker_id
LoadNext(t) ==
    /\ pc[t] = "load_next"
    /\ global_id' = [global_id EXCEPT ![t] = next_global_speaker_id]
    /\ pc' = [pc EXCEPT ![t] = "store"]
    /\ UNCHANGED <<notThreads, regVars, tracks, incr_tmp, gui_pc, stale, uploads, issued>>

\* line 809: self.global_speaker_mapping[pyannote_speaker] = global_id
Store(t) ==
    /\ pc[t] = "store"
    /\ global_speaker_mapping' =
         [l \in DOMAIN global_speaker_mapping \cup {CurLabel(t)} |->
            IF l = CurLabel(t) THEN global_id[t] ELSE global_speaker_mapping[l]]
    /\ pc' = [pc EXCEPT ![t] = "incr_load"]
    /\ UNCHANGED <<notThreads, next_global_speaker_id, speaker_stats, tracks, global_id,
                   incr_tmp, gui_pc, stale, uploads, issued>>

\* line 810, the load of "self.next_global_speaker_id += 1"
IncrLoad(t) ==
    /\ pc[t] = "incr_load"
    /\ incr_tmp' = [incr_tmp EXCEPT ![t] = next_global_speaker_id]
    /\ pc' = [pc EXCEPT ![t] = "incr_store"]
    /\ UNCHANGED <<notThreads, regVars, tracks, global_id, gui_pc, stale, uploads, issued>>

\* line 810, the store of "self.next_global_speaker_id += 1"; lines 812-814:
\* log and return global_id
IncrStore(t) ==
    /\ pc[t] = "incr_store"
    /\ next_global_speaker_id' = incr_tmp[t] + 1
    /\ Returned(t, global_id[t])
    /\ UNCHANGED <<notThreads, global_speaker_mapping, speaker_stats, gui_pc, stale, uploads>>

NextThreads ==
    \/ \E labels \in SeqsUpTo(ConcLabels, MaxTracks) : LiveProcessPyannote(labels)
    \/ UploadClear
    \/ \E labels \in SeqsUpTo(ConcLabels, MaxTracks) : UploadResetAndStart(labels)
    \/ \E t \in Threads :
        \/ Contains(t)
        \/ Subscr(t)
        \/ SubscrKeyError(t)
        \/ LoadNext(t)
        \/ Store(t)
        \/ IncrLoad(t)
        \/ IncrStore(t)

SpecThreads == InitThreads /\ [][NextThreads]_vars

(* C4: in every interleaving of the live worker and the upload thread, no   *)
(* label is given two different global ids and no two labels are given the  *)
(* same global id (among the ids handed out since the last reset by calls   *)
(* that began after it).                                                    *)
C4_OneLabelOneId ==
    \A a \in issued : \A b \in issued : (a[1] = b[1]) <=> (a[2] = b[2])

-----------------------------------------------------------------------------
(* combine_results: the per-word loop body (lines 822-855).  A turn is the  *)
(* tuple <<segment_start, segment_end, speaker_id>> of pyannote_results.    *)
(* word_mid = (word_start + word_end) / 2 is kept as its double,            *)
(* word_start + word_end, and so are the distances, which are only compared *)
(* with each other.                                                         *)

Max2(a, b) == IF a >= b THEN a ELSE b

Min2(a, b) == IF a <= b THEN a ELSE b

\* float('inf') of line 843
Infinity == -1

RECURSIVE OverlapLoop_last_wins(_, _, _, _)
\* the overlap loop with "overlap >= best_overlap": of equal overlaps the last wins
OverlapLoop_last_wins(word_data, results, i, acc) ==
    IF i > Len(results) THEN acc
    ELSE LET overlap_start == Max2(word_data.start_time, results[i][1])
             overlap_end == Min2(word_data.end_time, results[i][2])
             overlap == overlap_end - overlap_start
         IN OverlapLoop_last_wins(word_data, results, i + 1,
                IF overlap_end > overlap_start /\ overlap >= acc.best_overlap
                THEN [best_speaker |-> results[i][3], best_overlap |-> overlap]
                ELSE acc)

RECURSIVE OverlapLoop(_, _, _, _)
\* lines 830-839, from turn i on; acc holds best_speaker and best_overlap
OverlapLoop(word_data, results, i, acc) ==
    IF i > Len(results) THEN acc
    ELSE LET overlap_start == Max2(word_data.start_time, results[i][1])
             overlap_end == Min2(word_data.end_time, results[i][2])
             overlap == overlap_end - overlap_start
         IN OverlapLoop(word_data, results, i + 1,
                IF overlap_end > overlap_start /\ overlap > acc.best_overlap
                THEN [best_speaker |-> results[i][3], best_overlap |-> overlap]
                ELSE acc)

\* lines 846-851, doubled: the distance from the word's midpoint to a turn
Distance2(word_data, turn) ==
    LET word_mid2 == word_data.start_time + word_data.end_time IN
    IF word_mid2 < 2 * turn[1] THEN 2 * turn[1] - word_mid2
    ELSE IF word_mid2 > 2 * turn[2] THEN word_mid2 - 2 * turn[2]
    ELSE 0

RECURSIVE DistanceLoop_last_wins(_, _, _, _)
\* the distance loop with "distance <= closest_distance": of equal distances the last wins
DistanceLoop_last_wins(word_data, results, i, acc) ==
    IF i > Len(results) THEN acc
    ELSE LET distance == Distance2(word_data, results[i]) IN
         DistanceLoop_last_wins(word_data, results, i + 1,
            IF acc.closest_distance = Infinity \/ distance <= acc.closest_distance
            THEN [best_speaker |-> results[i][3], closest_distance |-> distance]
            ELSE acc)

RECURSIVE DistanceLoop(_, _, _, _)
\* lines 844-855, from turn i on; acc holds best_speaker and closest_distance
DistanceLoop(word_data, results, i, acc) ==
    IF i > Len(results) THEN acc
    ELSE LET distance == Distance2(word_data, results[i]) IN
         DistanceLoop(word_data, results, i + 1,
            IF acc.closest_distance = Infinity \/ distance < acc.closest_distance
            THEN [best_speaker |-> results[i][3], closest_distance |-> distance]
            ELSE acc)

\* the loop body without the proximity fallback of lines 841-855
best_speaker_of_word_no_fallback(word_data, results) ==
    OverlapLoop(word_data, results, 1, [best_speaker |-> 0, best_overlap |-> 0]).best_speaker

\* lines 822-855: best_speaker as line 861 stores it
best_speaker_of_word(word_data, results) ==
    LET by_overlap == OverlapLoop(word_data, results, 1,
                                  [best_speaker |-> 0, best_overlap |-> 0])
    IN IF by_overlap.best_overlap = 0 /\ results # << >>
       THEN DistanceLoop(word_data, results, 1,
                         [best_speaker |-> by_overlap.best_speaker,
                          closest_distance |-> Infinity]).best_speaker
       ELSE by_overlap.best_speaker

-----------------------------------------------------------------------------
(* The resolver applied to one word and one list of turns.  The words have  *)
(* any start and end on the grid, also end <= start; a turn has             *)
(* start < end, as pyannote's segments do.                                  *)

hi == <<"h", "i">>

yo == <<"y", "o">>

ResWords == {[word |-> hi, start_time |-> a, end_time |-> b] : a \in 0..MaxTime, b \in 0..MaxTime}

ResTurns == {t \in (0..MaxTime) \X (0..MaxTime) \X TurnSpeakers : t[1] < t[2]}

\* the word [1.0, 2.0] of the overlap tie-break
TieWord == [word |-> hi, start_time |-> 10, end_time |-> 20]

\* turns [0.5, 1.5] -> 0 and [1.5, 2.5] -> 1, in both orders
TieTurnsXY == << <<5, 15, 0>>, <<15, 25, 1>> >>

TieTurnsYX == << <<15, 25, 1>>, <<5, 15, 0>> >>

\* the word [5.0, 5.2] of the gap fallback
GapWord == [word |-> hi, start_time |-> 50, end_time |-> 52]

\* turns [0, 1] -> 0 and [6, 7] -> 1
GapTurns == << <<0, 10, 0>>, <<60, 70, 1>> >>

ResExamples == {<<TieWord, TieTurnsXY>>, <<TieWord, TieTurnsYX>>, <<GapWord, GapTurns>>}

InitResolver ==
    /\ global_speaker_mapping = EmptyDict
    /\ next_global_speaker_id = 0
    /\ speaker_stats = EmptyDict
    /\ ObsIdle
    /\ ConcIdle
    /\ WinIdle
    /\ WorkIdle
    /\ StreamIdle
    /\ SvcReady
    /\ \/ /\ word_in \in ResWords
          /\ turns_in \in SeqsUpTo(ResTurns, MaxTurns)
       \/ \E ex \in ResExamples : word_in = ex[1] /\ turns_in = ex[2]
    /\ attributed = -1
    /\ attributed_done = FALSE

\* the loop body of combine_results runs on the word
AttributeWord ==
    /\ ~attributed_done
    /\ attributed' = best_speaker_of_word(word_in, turns_in)
    /\ attributed_done' = TRUE
    /\ UNCHANGED <<word_in, turns_in, notResolver>>

NextResolver == AttributeWord

SpecResolver == InitResolver /\ [][NextResolver]_vars

\* max(0, min(word.end, turn.end) - max(word.start, turn.start))
OverlapOf(w, turn) == Max2(0, Min2(w.end_time, turn[2]) - Max2(w.start_time, turn[1]))

\* the greatest overlap of the word with a turn
MaxOverlap(w, turns) ==
    IF turns = << >> THEN 0
    ELSE CHOOSE m \in {OverlapOf(w, turns[i]) : i \in 1..Len(turns)} :
            \A i \in 1..Len(turns) : OverlapOf(w, turns[i]) <= m

\* twice the distance of the claim: 0 if the midpoint lies inside the turn,
\* else the gap from the midpoint to the nearer edge
GapOf2(w, turn) ==
    LET mid2 == w.start_time + w.end_time IN
    IF 2 * turn[1] <= mid2 /\ mid2 <= 2 * turn[2] THEN 0
    ELSE Min2(IF mid2 >= 2 * turn[1] THEN mid2 - 2 * turn[1] ELSE 2 * turn[1] - mid2,
              IF mid2 >= 2 * turn[2] THEN mid2 - 2 * turn[2] ELSE 2 * turn[2] - mid2)

\* the first index of the turns at which f is extremal: no earlier turn is
\* as good, no turn is better
FirstBest(turns, better(_, _)) ==
    CHOOSE i \in 1..Len(turns) :
        /\ \A j \in 1..Len(turns) : ~better(j, i)
        /\ \A j \in 1..(i - 1) : better(i, j)

(* C5: the resolver is total: it returns a speaker for every word and every *)
(* list of turns; the speaker is that of one of the turns whenever there is *)
(* a turn, and the default 0 when there is none.                            *)
C5_ResolverTotal ==
    attributed_done =>
        /\ attributed \in Nat
        /\ turns_in # << >> => \E i \in 1..Len(turns_in) : attributed = turns_in[i][3]
        /\ turns_in = << >> => attributed = 0

\* a word in a gap between turns, none of which is speaker 0, gets a turn's speaker
C5_Witness ==
    /\ attributed_done
    /\ Len(turns_in) = 2
    /\ \A i \in 1..Len(turns_in) : turns_in[i][3] = 1 /\ OverlapOf(word_in, turns_in[i]) = 0
    /\ word_in.end_time <= word_in.start_time
    /\ attributed = 1

(* C6: when a turn overlaps the word for a positive duration, the resolver  *)
(* returns the speaker of the turn with the greatest overlap, the first     *)
(* listed among equals; word [1.0,2.0] with turns [0.5,1.5]->X and          *)
(* [1.5,2.5]->Y gives X when X is listed first and Y when Y is.             *)
C6_GreatestOverlapFirstWins ==
    (attributed_done /\ MaxOverlap(word_in, turns_in) > 0) =>
        LET better(i, j) == OverlapOf(word_in, turns_in[i]) > OverlapOf(word_in, turns_in[j])
            first == FirstBest(turns_in, better)
        IN /\ OverlapOf(word_in, turns_in[first]) = MaxOverlap(word_in, turns_in)
           /\ attributed = turns_in[first][3]
           /\ (word_in = TieWord /\ turns_in = TieTurnsXY) => attributed = 0
           /\ (word_in = TieWord /\ turns_in = TieTurnsYX) => attributed = 1

\* the tie of the example, Y listed first
C6_Witness ==
    /\ attributed_done
    /\ word_in = TieWord
    /\ turns_in = TieTurnsYX
    /\ OverlapOf(word_in, turns_in[1]) = OverlapOf(word_in, turns_in[2])
    /\ attributed = 1

(* C7: when every turn has overlap 0 with the word and there is a turn, the *)
(* resolver returns the speaker of the turn at minimum distance from the     *)
(* word's midpoint, the first listed among equals; word [5.0,5.2] with       *)
(* turns [0,1]->X and [6,7]->Y is attributed to Y.                           *)
C7_NearestTurnFirstWins ==
    (attributed_done /\ turns_in # << >> /\ MaxOverlap(word_in, turns_in) = 0) =>
        LET better(i, j) == GapOf2(word_in, turns_in[i]) < GapOf2(word_in, turns_in[j])
            first == FirstBest(turns_in, better)
        IN /\ attributed = turns_in[first][3]
           /\ (word_in = GapWord /\ turns_in = GapTurns) => attributed = 1

\* the gap of the example
C7_Witness ==
    /\ attributed_done
    /\ word_in = GapWord
    /\ turns_in = GapTurns
    /\ MaxOverlap(word_in, turns_in) = 0
    /\ attributed = 1

-----------------------------------------------------------------------------
(* Text: a str is a sequence of one-character strings. *)

IsSpace(ch) == ch = " "

RECURSIVE LStrip(_)
LStrip(text) == IF text # << >> /\ IsSpace(Head(text)) THEN LStrip(Tail(text)) ELSE text

RECURSIVE RStrip(_)
RStrip(text) ==
    IF text # << >> /\ IsSpace(text[Len(text)])
    THEN RStrip(SubSeq(text, 1, Len(text) - 1)) ELSE text

\* str.strip()
Strip(text) == RStrip(LStrip(text))

\* len(str.split()): the number of maximal runs of non-space characters
SplitCount(text) ==
    Cardinality({i \in 1..Len(text) :
                    ~IsSpace(text[i]) /\ (i = 1 \/ IsSpace(text[i - 1]))})

RECURSIVE SumDict(_, _)
\* sum(d[k] for k in ks), as line 926 sums speaker_stats.values()
SumDict(d, ks) ==
    IF ks = {} THEN 0
    ELSE LET k == CHOOSE x \in ks : TRUE IN d[k] + SumDict(d, ks \ {k})

\* dict.get(k, default)
DictGet(d, k, default) == IF k \in DOMAIN d THEN d[k] ELSE default

\* d[k] = v
DictSet(d, k, v) == [x \in DOMAIN d \cup {k} |-> IF x = k THEN v ELSE d[x]]

-----------------------------------------------------------------------------
(* One window of the processing worker *)

RECURSIVE MapTracks(_, _, _, _, _)
\* process_pyannote, lines 767-776, from track i on
MapTracks(diar, i, mapping, next_id, results) ==
    IF i > Len(diar) THEN [results |-> results, mapping |-> mapping, next_id |-> next_id]
    ELSE LET r == get_global_speaker_id(mapping, next_id, diar[i][3]) IN
         MapTracks(diar, i + 1, r.mapping, r.next_id,
                   Append(results, <<diar[i][1], diar[i][2], r.ret>>))

\* process_pyannote(self, audio_file): diar is what the pipeline yields for
\* the file; the returned list carries global ids (line 785)
process_pyannote(diar, mapping, next_id) == MapTracks(diar, 1, mapping, next_id, << >>)

\* lines 821-863 for the words of one result
CombineWords(words, results) ==
    [i \in 1..Len(words) |->
        [word |-> words[i].word,
         start_time |-> words[i].start_time,
         end_time |-> words[i].end_time,
         speaker |-> best_speaker_of_word(words[i], results)]]

RECURSIVE CombineFrom(_, _, _)
CombineFrom(g_results, i, results) ==
    IF i > Len(g_results) THEN << >>
    ELSE CombineWords(g_results[i].words, results) \o CombineFrom(g_results, i + 1, results)

\* combine_results(self, google_results, pyannote_results); the confidence
\* copied into each entry is only displayed and is left out
combine_results(g_results, results) == CombineFrom(g_results, 1, results)

\* None of lines 874 and 876
None == -1

\* a conversation whose text keeps the space appended after its last word
Conversation_unstripped(acc) ==
    [speaker |-> acc.current_speaker,
     text |-> acc.current_text,
     start_time |-> acc.current_start]

\* a conversation as lines 881-885 and 894-898 append it
Conversation(acc) ==
    [speaker |-> acc.current_speaker,
     text |-> Strip(acc.current_text),
     start_time |-> acc.current_start]

RECURSIVE GroupLoop(_, _, _)
\* lines 878-890, from word i on
GroupLoop(combined_results, i, acc) ==
    IF i > Len(combined_results) THEN acc
    ELSE LET word_data == combined_results[i]
             changed == acc.current_speaker # word_data.speaker
             opened ==
                IF changed
                THEN [conversations |->
                        IF Strip(acc.current_text) # << >>
                        THEN Append(acc.conversations, Conversation(acc))
                        ELSE acc.conversations,
                      current_speaker |-> word_data.speaker,
                      current_text |-> << >>,
                      current_start |-> word_data.start_time]
                ELSE acc
         IN GroupLoop(combined_results, i + 1,
                [opened EXCEPT !.current_text = @ \o word_data.word \o <<" ">>])

\* the grouping without lines 892-898: the last conversation is not added
group_conversations_no_last(combined_results) ==
    GroupLoop(combined_results, 1,
              [conversations |-> << >>, current_speaker |-> None,
               current_text |-> << >>, current_start |-> None]).conversations

\* lines 873-898: the conversations of display_results
group_conversations(combined_results) ==
    LET acc == GroupLoop(combined_results, 1,
                         [conversations |-> << >>, current_speaker |-> None,
                          current_text |-> << >>, current_start |-> None])
    IN IF Strip(acc.current_text) # << >>
       THEN Append(acc.conversations, Conversation(acc))
       ELSE acc.conversations

RECURSIVE count_words_overwrites(_, _, _)
\* the statistics loop with "=" for "+=": a conversation replaces the count
count_words_overwrites(convs, i, stats) ==
    IF i > Len(convs) THEN stats
    ELSE count_words_overwrites(convs, i + 1,
            DictSet(stats, convs[i].speaker, SplitCount(convs[i].text)))

RECURSIVE count_words(_, _, _)
\* lines 903-911: the statistics loop of display_results, from conversation i on
count_words(convs, i, stats) ==
    IF i > Len(convs) THEN stats
    ELSE count_words(convs, i + 1,
            DictSet(stats, convs[i].speaker,
                    DictGet(stats, convs[i].speaker, 0) + SplitCount(convs[i].text)))

\* display_results(self, combined_results): the conversations shown and the
\* statistics as the call leaves them
display_results(combined_results, stats) ==
    IF combined_results = << >>
    THEN [conversations |-> << >>, stats |-> stats]
    ELSE LET convs == group_conversations(combined_results) IN
         [conversations |-> convs, stats |-> count_words(convs, 1, stats)]

\* display_google_only_results that shows the transcripts and counts nothing
display_google_only_results_uncounted(g_results, i, stats) == stats

RECURSIVE display_google_only_results(_, _, _)
\* display_google_only_results(self, google_results), lines 498-503, from
\* result i on: the words of the transcript are counted for speaker 0
display_google_only_results(g_results, i, stats) ==
    IF i > Len(g_results) THEN stats
    ELSE display_google_only_results(g_results, i + 1,
            DictSet(stats, 0, DictGet(stats, 0, 0) + SplitCount(g_results[i].transcript)))

RECURSIVE SpeakerDuration(_, _, _)
\* line 540: the summed duration of the turns of one speaker, from turn i on
SpeakerDuration(results, i, speaker_id) ==
    IF i > Len(results) THEN 0
    ELSE (IF results[i][3] = speaker_id THEN results[i][2] - results[i][1] ELSE 0)
         + SpeakerDuration(results, i + 1, speaker_id)

\* display_pyannote_only_live_results(self, pyannote_results), lines 525-543:
\* every active speaker gets max(1, int(duration * 2)) words
display_pyannote_only_live_results(results, stats) ==
    LET active_speakers == {results[i][3] : i \in 1..Len(results)} IN
    [sid \in DOMAIN stats \cup active_speakers |->
        IF sid \in active_speakers
        THEN DictGet(stats, sid, 0)
             + Max2(1, (SpeakerDuration(results, 1, sid) * 2) \div TicksPerSecond)
        ELSE stats[sid]]

\* process_google without its try: an exception of recognize leaves the call
process_google_uncaught(response, recognize_raises) ==
    [results |-> IF recognize_raises THEN << >> ELSE response, escaped |-> recognize_raises]

\* process_google(self, audio_file), lines 694-750: response is the list of
\* results recognize returns for the file; an exception of the call is caught
\* at line 748 and [] is returned, so no exception escapes
process_google(response, recognize_raises) ==
    [results |-> IF recognize_raises THEN << >> ELSE response, escaped |-> FALSE]

\* process_pyannote(self, audio_file) with its try, lines 754-797: diar is what
\* the pipeline yields for the file; an exception of the pipeline call (line
\* 755) is caught at line 795 before any id is requested, and [] is returned
try_process_pyannote(diar, pipeline_raises, mapping, next_id) ==
    IF pipeline_raises
    THEN [results |-> << >>, mapping |-> mapping, next_id |-> next_id, escaped |-> FALSE]
    ELSE LET p == process_pyannote(diar, mapping, next_id) IN
         [results |-> p.results, mapping |-> p.mapping, next_id |-> p.next_id,
          escaped |-> FALSE]

\* lines 668-683: the branch the worker takes for the two result lists
window_branch(g_results, results) ==
    IF g_results # << >> /\ results # << >> THEN "both"
    ELSE IF g_results # << >> THEN "google_only"
    ELSE IF results # << >> THEN "pyannote_only"
    ELSE "neither"

\* a line inserted into the transcript widget: what it is, the speakers it
\* names and the text it carries (timestamps and colours are left out)
Line(kind, speakers, text) == [kind |-> kind, speakers |-> speakers, text |-> text]

\* display_results, lines 902-921: one line per conversation
ConversationLines(convs) ==
    [i \in 1..Len(convs) |-> Line("conversation", {convs[i].speaker}, convs[i].text)]

\* display_google_only_results, lines 498-507: one line per result, for Speaker 0
DefaultSpeakerLines(g_results) ==
    [i \in 1..Len(g_results) |-> Line("default", {0}, g_results[i].transcript)]

\* display_pyannote_only_live_results, lines 525-535: one line for the window,
\* naming the active speakers, if there is one
ActivityLines(results) ==
    LET active_speakers == {results[i][3] : i \in 1..Len(results)} IN
    IF active_speakers # {} THEN << Line("activity", active_speakers, << >>) >> ELSE << >>

\* the display with an else branch that creates the entry of Speaker 0
display_window_neither_touches_stats(g_results, results, stats) ==
    LET b == window_branch(g_results, results)
        c == IF b = "both" THEN combine_results(g_results, results) ELSE << >>
        shown == display_results(c, stats)
    IN [branch |-> b,
        combined |-> c,
        conversations |-> shown.conversations,
        transcript_text |->
            IF b = "both" THEN ConversationLines(shown.conversations)
            ELSE IF b = "google_only" THEN DefaultSpeakerLines(g_results)
            ELSE IF b = "pyannote_only" THEN ActivityLines(results)
            ELSE << >>,
        stats |->
            IF b = "both" THEN shown.stats
            ELSE IF b = "google_only" THEN display_google_only_results(g_results, 1, stats)
            ELSE IF b = "pyannote_only" THEN display_pyannote_only_live_results(results, stats)
            ELSE DictSet(stats, 0, DictGet(stats, 0, 0))]

\* lines 668-683: what the window shows and counts
display_window(g_results, results, stats) ==
    LET b == window_branch(g_results, results)
        c == IF b = "both" THEN combine_results(g_results, results) ELSE << >>
        shown == display_results(c, stats)
    IN [branch |-> b,
        combined |-> c,
        conversations |-> shown.conversations,
        transcript_text |->
            IF b = "both" THEN ConversationLines(shown.conversations)
            ELSE IF b = "google_only" THEN DefaultSpeakerLines(g_results)
            ELSE IF b = "pyannote_only" THEN ActivityLines(results)
            ELSE << >>,
        stats |->
            IF b = "both" THEN shown.stats
            ELSE IF b = "google_only" THEN display_google_only_results(g_results, 1, stats)
            ELSE IF b = "pyannote_only" THEN display_pyannote_only_live_results(results, stats)
            ELSE stats]

\* processing_worker, lines 655-690, for one collected window: the two calls,
\* then the display; an exception escaping a call ends the iteration at line
\* 689 with nothing displayed
process_window(response, recognize_raises, diar, pipeline_raises, mapping, next_id, stats) ==
    LET g == process_google(response, recognize_raises)
        p == IF g.escaped
             THEN [results |-> << >>, mapping |-> mapping, next_id |-> next_id,
                   escaped |-> FALSE]
             ELSE try_process_pyannote(diar, pipeline_raises, mapping, next_id)
        shown == display_window(g.results, p.results, stats)
        failed == g.escaped \/ p.escaped
    IN [google_results |-> g.results,
        pyannote_results |-> p.results,
        mapping |-> p.mapping,
        next_id |-> p.next_id,
        branch |-> IF failed THEN "error" ELSE shown.branch,
        combined |-> IF failed THEN << >> ELSE shown.combined,
        conversations |-> IF failed THEN << >> ELSE shown.conversations,
        transcript_text |-> IF failed THEN << >> ELSE shown.transcript_text,
        stats |-> IF failed THEN stats ELSE shown.stats]

\* the speakers of the turns in the order of their first turn: the keys of
\* speaker_segments, lines 441-445
RECURSIVE SpeakerOrder(_, _, _)
SpeakerOrder(results, i, seen) ==
    IF i > Len(results) THEN seen
    ELSE SpeakerOrder(results, i + 1,
            IF \E j \in 1..Len(seen) : seen[j] = results[i][3]
            THEN seen ELSE Append(seen, results[i][3]))

\* lines 455-458: the turns again, grouped by speaker
RECURSIVE AllSegments(_, _, _)
AllSegments(results, order, k) ==
    IF k > Len(order) THEN << >>
    ELSE SelectSeq(results, LAMBDA r : r[3] = order[k]) \o AllSegments(results, order, k + 1)

\* list.sort(key=lambda x: x[0]) of line 461: stable, by start time
RECURSIVE SortByStart(_)
SortByStart(segs) ==
    IF segs = << >> THEN << >>
    ELSE LET rest == SortByStart(Tail(segs))
             before == SelectSeq(rest, LAMBDA r : r[1] < Head(segs)[1])
             after == SelectSeq(rest, LAMBDA r : r[1] >= Head(segs)[1])
         IN before \o <<Head(segs)>> \o after

\* display_pyannote_only_results, lines 441-489: one timeline line per turn,
\* and the estimate of each speaker's words REPLACES the speaker's count
display_pyannote_only_results(results, stats) ==
    LET order == SpeakerOrder(results, 1, << >>)
        all_segments == SortByStart(AllSegments(results, order, 1))
        speakers == {results[i][3] : i \in 1..Len(results)}
    IN [transcript_text |->
            [i \in 1..Len(all_segments) |-> Line("timeline", {all_segments[i][3]}, << >>)],
        stats |->
            [sid \in DOMAIN stats \cup speakers |->
                IF sid \in speakers
                THEN Max2(1, (SpeakerDuration(results, 1, sid) * 2) \div TicksPerSecond)
                ELSE stats[sid]]]

\* process_uploaded_file(self, file_path), lines 372-430: recognition only for
\* a .wav file, then the diarization; results are shown only if the
\* diarization found a turn
process_uploaded_file(is_wav, response, recognize_raises, diar, pipeline_raises, mapping, next_id, stats) ==
    LET g_results == IF is_wav THEN process_google(response, recognize_raises).results
                     ELSE << >>
        p == try_process_pyannote(diar, pipeline_raises, mapping, next_id)
        c == IF p.results # << >> /\ g_results # << >>
             THEN combine_results(g_results, p.results) ELSE << >>
        shown == display_results(c, stats)
        timeline == display_pyannote_only_results(p.results, stats)
    IN [google_results |-> g_results,
        pyannote_results |-> p.results,
        mapping |-> p.mapping,
        next_id |-> p.next_id,
        branch |-> IF p.results = << >> THEN "file_no_speakers"
                   ELSE IF g_results # << >> THEN "file_both" ELSE "file_pyannote_only",
        combined |-> c,
        conversations |-> shown.conversations,
        transcript_text |-> IF p.results = << >> THEN << >>
                            ELSE IF g_results # << >> THEN ConversationLines(shown.conversations)
                            ELSE timeline.transcript_text,
        stats |-> IF p.results = << >> THEN stats
                  ELSE IF g_results # << >> THEN shown.stats
                  ELSE timeline.stats]

-----------------------------------------------------------------------------
(* The windows of a live session.  A recognised word is one token: its text *)
(* is not empty and holds no whitespace.  Its end may equal its start.      *)

WordAt(text, a, b) == [word |-> text, start_time |-> a, end_time |-> b]

\* "hi" at [0, 0.5], "yo" at [0.5, 1.0], and a "hi" of no duration at 0.5
WinWords == {WordAt(hi, 0, 5), WordAt(yo, 5, 10), WordAt(hi, 5, 5)}

RECURSIVE TranscriptOf(_)
\* the transcript of a result: its words, separated by single spaces
TranscriptOf(words) ==
    IF words = << >> THEN << >>
    ELSE IF Len(words) = 1 THEN words[1].word
    ELSE words[1].word \o <<" ">> \o TranscriptOf(Tail(words))

ResultOf(words) == [transcript |-> TranscriptOf(words), words |-> words]

WinTrackSpans == {<<0, 5>>, <<5, 10>>}

WinLabels == {LabelNames[1], LabelNames[2]}

WinTracks == {<<sp[1], sp[2], l>> : sp \in WinTrackSpans, l \in WinLabels}

\* five words "hi", one per second, under turns A, B, A: speakers A, A, B, B, A
FiveWordsGoogle ==
    << ResultOf(<< WordAt(hi, 0, 10), WordAt(hi, 10, 20), WordAt(hi, 20, 30),
                   WordAt(hi, 30, 40), WordAt(hi, 40, 50) >>) >>

FiveWordsDiarization ==
    << <<0, 20, LabelNames[1]>>, <<20, 40, LabelNames[2]>>, <<40, 50, LabelNames[1]>> >>

\* two results of one word each, under one turn
TwoResultsGoogle == << ResultOf(<< WordAt(hi, 0, 5) >>), ResultOf(<< WordAt(yo, 5, 10) >>) >>

TwoResultsDiarization == << <<0, 10, LabelNames[2]>> >>

hello == <<"h", "e", "l", "l", "o">>

world == <<"w", "o", "r", "l", "d">>

\* "hello" at [0, 0.5] and "world" at [0.5, 1.0] under one turn [0, 1]
HelloWorldGoogle == << ResultOf(<< WordAt(hello, 0, 5), WordAt(world, 5, 10) >>) >>

HelloWorldDiarization == << <<0, 10, LabelNames[1]>> >>

WinResponses == {<< >>} \cup {<<ResultOf(ws)>> : ws \in SeqsUpTo(WinWords, MaxWords)}

WinDiarizations == SeqsUpTo(WinTracks, MaxWindowTurns)

WinInputs ==
    (WinResponses \X WinDiarizations)
    \cup {<<FiveWordsGoogle, FiveWordsDiarization>>, <<TwoResultsGoogle, TwoResultsDiarization>>,
          <<HelloWorldGoogle, HelloWorldDiarization>>}

\* the calls of one window: <<response, recognize raises, diarization,
\* pipeline raises>>; a call that raises yields nothing
WinCalls ==
    {<<in[1], FALSE, in[2], FALSE>> : in \in WinInputs}
    \cup {<<<< >>, TRUE, diar, FALSE>> : diar \in WinDiarizations}
    \cup {<<response, FALSE, << >>, TRUE>> : response \in WinResponses}
    \cup {<<<< >>, TRUE, << >>, TRUE>>}

InitWindow ==
    /\ global_speaker_mapping = EmptyDict
    /\ next_global_speaker_id = 0
    /\ speaker_stats = EmptyDict
    /\ ObsIdle
    /\ ConcIdle
    /\ ResIdle
    /\ WinIdle
    /\ WorkIdle
    /\ StreamIdle
    /\ SvcReady

\* the file of an upload: <<is a .wav, response, recognize raises, diarization,
\* pipeline raises>>; recognize is not called for a file that is no .wav
UploadCalls ==
    {<<TRUE, call[1], call[2], call[3], call[4]>> : call \in WinCalls}
    \cup {<<FALSE, << >>, FALSE, diar, FALSE>> : diar \in WinDiarizations}

\* the branches of lines 668-683, and the handler of line 689
LiveBranches == {"both", "google_only", "pyannote_only", "neither", "error"}

\* the branches of process_uploaded_file, lines 396-430
FileBranches == {"file_both", "file_pyannote_only", "file_no_speakers"}

\* processing_worker, lines 655-687: one collected window is recognised,
\* diarized, fused and displayed
ProcessWindow(response, recognize_raises, diar, pipeline_raises) ==
    /\ branch = "collecting"
    /\ SumDict(speaker_stats, DOMAIN speaker_stats) < MaxCounted
    /\ \E w \in {process_window(response, recognize_raises, diar, pipeline_raises,
                            global_speaker_mapping, next_global_speaker_id, speaker_stats)} :
        /\ google_results' = w.google_results
        /\ diarization' = diar
        /\ raised' = (IF recognize_raises THEN {"google"} ELSE {})
                        \cup (IF pipeline_raises THEN {"pyannote"} ELSE {})
        /\ pyannote_results' = w.pyannote_results
        /\ global_speaker_mapping' = w.mapping
        /\ next_global_speaker_id' = w.next_id
        /\ combined' = w.combined
        /\ conversations' = w.conversations
        /\ transcript_text' = w.transcript_text
        /\ branch' = w.branch
        /\ speaker_stats' = w.stats
        /\ UNCHANGED notWindow

\* processing_worker, lines 629-640 of the next iteration: the worker is back
\* at collecting audio, with nothing of the last window left
Collect ==
    /\ branch \in LiveBranches
    /\ branch' = "collecting"
    /\ google_results' = << >>
    /\ diarization' = << >>
    /\ pyannote_results' = << >>
    /\ combined' = << >>
    /\ conversations' = << >>
    /\ transcript_text' = << >>
    /\ raised' = {}
    /\ UNCHANGED <<regVars, notWindow>>

\* upload_audio_file, lines 342-368, with a file chosen: the displays, the
\* statistics and the registry are cleared, then the file is handed to a thread
UploadAudioFile ==
    LET cleared == reset_speakers(global_speaker_mapping, next_global_speaker_id, speaker_stats)
    IN
    /\ branch = "collecting"
    /\ branch' = "uploading"
    /\ global_speaker_mapping' = cleared.mapping
    /\ next_global_speaker_id' = cleared.next_id
    /\ speaker_stats' = cleared.stats
    /\ transcript_text' = << >>
    /\ UNCHANGED <<google_results, diarization, pyannote_results, combined, conversations,
                   raised, notWindow>>

\* process_uploaded_file, lines 370-434, run by the thread of line 368
ProcessUploadedFile(is_wav, response, recognize_raises, diar, pipeline_raises) ==
    /\ branch = "uploading"
    /\ \E f \in {process_uploaded_file(is_wav, response, recognize_raises, diar, pipeline_raises,
                                   global_speaker_mapping, next_global_speaker_id,
                                   speaker_stats)} :
        /\ google_results' = f.google_results
        /\ diarization' = diar
        /\ raised' = (IF is_wav /\ recognize_raises THEN {"google"} ELSE {})
                        \cup (IF pipeline_raises THEN {"pyannote"} ELSE {})
        /\ pyannote_results' = f.pyannote_results
        /\ global_speaker_mapping' = f.mapping
        /\ next_global_speaker_id' = f.next_id
        /\ combined' = f.combined
        /\ conversations' = f.conversations
        /\ transcript_text' = f.transcript_text
        /\ branch' = f.branch
        /\ speaker_stats' = f.stats
        /\ UNCHANGED notWindow

\* the thread of the upload has ended; what it displayed stays on the screen
\* and is no longer observed
FileDone ==
    /\ branch \in FileBranches
    /\ branch' = "collecting"
    /\ google_results' = << >>
    /\ diarization' = << >>
    /\ pyannote_results' = << >>
    /\ combined' = << >>
    /\ conversations' = << >>
    /\ transcript_text' = << >>
    /\ raised' = {}
    /\ UNCHANGED <<regVars, notWindow>>

NextWindow ==
    \/ \E call \in WinCalls : ProcessWindow(call[1], call[2], call[3], call[4])
    \/ Collect
    \/ UploadAudioFile
    \/ \E file \in UploadCalls :
            ProcessUploadedFile(file[1], file[2], file[3], file[4], file[5])
    \/ FileDone

SpecWindow == InitWindow /\ [][NextWindow]_vars

\* the words process_google returned for the window, in order
RECURSIVE WordsOf(_)
WordsOf(g_results) ==
    IF g_results = << >> THEN << >> ELSE Head(g_results).words \o WordsOf(Tail(g_results))

(* C8: a word whose end is not greater than its start is skipped by the     *)
(* resolver: it appears neither among the attributed words nor in a         *)
(* conversation nor in the statistics, and the other words of the window    *)
(* are still processed.                                                     *)
C8_MalformedWordSkipped ==
    branch = "both" =>
        LET kept == SelectSeq(WordsOf(google_results), LAMBDA w : w.end_time > w.start_time) IN
        /\ Len(combined) = Len(kept)
        /\ \A i \in 1..Len(combined) :
              /\ combined[i].end_time > combined[i].start_time
              /\ combined[i].word = kept[i].word

\* the indices at which the attributed speaker differs from the word before
SegmentStarts(c) == {i \in 1..Len(c) : i = 1 \/ c[i].speaker # c[i - 1].speaker}

\* the k-th of them
NthStart(c, k) ==
    CHOOSE i \in SegmentStarts(c) : Cardinality({j \in SegmentStarts(c) : j < i}) = k - 1

\* the last word before the next change of speaker
RunEnd(c, b) ==
    CHOOSE e \in b..Len(c) :
        /\ \A j \in b..e : c[j].speaker = c[b].speaker
        /\ e = Len(c) \/ c[e + 1].speaker # c[b].speaker

RECURSIVE JoinWords(_, _, _)
\* the words b..e of c joined by single spaces
JoinWords(c, b, e) ==
    IF b = e THEN c[b].word ELSE c[b].word \o <<" ">> \o JoinWords(c, b + 1, e)

(* C9: display_results starts a new conversation segment exactly when the   *)
(* attributed speaker differs from that of the word before, and keeps the   *)
(* segments in input order; a segment's text is its words joined by single  *)
(* spaces, its start_time the start of its first word; five words with      *)
(* speakers A, A, B, B, A give three segments with speakers A, B, A.        *)
C9_SegmentPerSpeakerChange ==
    branch = "both" =>
        /\ Len(conversations) = Cardinality(SegmentStarts(combined))
        /\ \A k \in 1..Len(conversations) :
              LET b == NthStart(combined, k) IN
              /\ conversations[k].speaker = combined[b].speaker
              /\ conversations[k].start_time = combined[b].start_time
              /\ conversations[k].text = JoinWords(combined, b, RunEnd(combined, b))
        /\ (google_results = FiveWordsGoogle /\ diarization = FiveWordsDiarization) =>
              /\ Len(conversations) = 3
              /\ conversations[1].speaker = pyannote_results[1][3]
              /\ conversations[2].speaker = pyannote_results[2][3]
              /\ conversations[3].speaker = pyannote_results[1][3]
              /\ conversations[1].speaker # conversations[2].speaker
              /\ conversations[1].text = <<"h", "i", " ", "h", "i">>
              /\ conversations[3].text = hi

\* the five words of the example, grouped into three segments
C9_Witness ==
    /\ branch = "both"
    /\ google_results = FiveWordsGoogle
    /\ diarization = FiveWordsDiarization
    /\ Len(combined) = 5
    /\ Len(conversations) = 3
    /\ conversations[3].start_time = 40

\* the words of c attributed to speaker s
WordsFor(c, s) == Cardinality({i \in 1..Len(c) : c[i].speaker = s})

(* C10: a window fused in the both-non-empty branch makes each speaker's    *)
(* count grow by exactly the number of words attributed to that speaker in  *)
(* the window and the total by the number of words of the window; the       *)
(* counts of the speakers with no word in the window do not change.         *)
C10_StatsGrowByWords ==
    [][(branch = "collecting" /\ branch' = "both") =>
        LET spoken == {combined'[i].speaker : i \in 1..Len(combined')} IN
        /\ DOMAIN speaker_stats' = DOMAIN speaker_stats \cup spoken
        /\ \A s \in DOMAIN speaker_stats' :
              speaker_stats'[s] = DictGet(speaker_stats, s, 0) + WordsFor(combined', s)
        /\ SumDict(speaker_stats', DOMAIN speaker_stats')
              = SumDict(speaker_stats, DOMAIN speaker_stats) + Len(combined')]_vars

\* a second window adds words to a speaker counted before, and leaves
\* another speaker's count alone
C10_Witness ==
    /\ branch = "both"
    /\ DOMAIN speaker_stats = {0, 1}
    /\ WordsFor(combined, 0) > 0
    /\ speaker_stats[0] > WordsFor(combined, 0)
    /\ WordsFor(combined, 1) = 0

-----------------------------------------------------------------------------
(* The recording session: start_recording, stop_recording, audio_callback   *)
(* and processing_worker, one step per read or write of shared state.       *)
(* Chunks are numbered in the order the callback enqueues them.             *)

InitWorker ==
    /\ global_speaker_mapping = EmptyDict
    /\ next_global_speaker_id = 0
    /\ speaker_stats = EmptyDict
    /\ ObsIdle
    /\ ConcIdle
    /\ ResIdle
    /\ WinIdle
    /\ WorkIdle
    /\ StreamIdle
    /\ speech_client \in BOOLEAN
    /\ diarization_pipeline \in BOOLEAN
    /\ program = "hybrid"

\* the worker's thread has been started and has not returned
IsAlive(w) == worker_pc[w] \notin {"unborn", "dead"}

\* start_recording, lines 564-595, reached from toggle_recording while not
\* recording, with both services ready: the stream is opened and started, a
\* new worker is started
StartRecording ==
    /\ gui = "idle"
    /\ ~is_recording
    /\ speech_client /\ diarization_pipeline
    /\ processing_thread < MaxSessions
    /\ pyaudio_instance' = "live"
    /\ stream' = "active"
    /\ is_recording' = TRUE
    /\ processing_thread' = processing_thread + 1
    /\ worker_pc' = [worker_pc EXCEPT ![processing_thread + 1] = "outer"]
    /\ log' = "started"
    /\ UNCHANGED <<audio_queue, audio_buffer, gui, captured, fused, notWorker>>

\* start_recording, lines 566-572: a service that is None is logged and the
\* call returns
StartRefused ==
    /\ gui = "idle"
    /\ ~is_recording
    /\ ~speech_client \/ ~diarization_pipeline
    /\ log' = IF ~speech_client THEN "google_not_ready" ELSE "pyannote_not_ready"
    /\ UNCHANGED <<is_recording, audio_queue, stream, pyaudio_instance, processing_thread,
                   worker_pc, audio_buffer, gui, captured, fused, notWorker>>

\* start_recording, lines 574-582 and 597-598: pyaudio.PyAudio() raises (the
\* field keeps its value) or open raises (the field holds the new instance);
\* the handler logs the error and the call returns
StartOpenFails ==
    /\ gui = "idle"
    /\ ~is_recording
    /\ speech_client /\ diarization_pipeline
    /\ pyaudio_instance' \in {pyaudio_instance, "live"}
    /\ log' = "start_error"
    /\ UNCHANGED <<is_recording, audio_queue, stream, processing_thread, worker_pc,
                   audio_buffer, gui, captured, fused, notWorker>>

\* stop_recording, lines 600-611, reached from toggle_recording while
\* recording: the flag is cleared, the device released, then the join begins
StopRecording ==
    /\ gui = "idle"
    /\ is_recording
    /\ is_recording' = FALSE
    /\ stream' = "closed"
    /\ pyaudio_instance' = "terminated"
    /\ gui' = IF IsAlive(processing_thread) THEN "joining" ELSE "idle"
    /\ UNCHANGED <<audio_queue, processing_thread, worker_pc, audio_buffer, captured, fused,
                   log, notWorker>>

\* stop_recording, lines 612-615: join(timeout=2) returns when the worker has
\* ended, or after the timeout while the worker is held in a collaborator call
JoinReturns ==
    /\ gui = "joining"
    /\ worker_pc[processing_thread] \in {"dead", "process"}
    /\ gui' = "idle"
    /\ UNCHANGED <<is_recording, audio_queue, stream, pyaudio_instance, processing_thread,
                   worker_pc, audio_buffer, captured, fused, log, notWorker>>

\* the callback of a queue made with a capacity, queue.Queue(maxsize=...): put
\* waits while the queue is full
AudioCallback_bounded_queue ==
    /\ stream = "active"
    /\ is_recording
    /\ captured < MaxChunks
    /\ Len(audio_queue) < max_chunks
    /\ captured' = captured + 1
    /\ audio_queue' = Append(audio_queue, captured + 1)
    /\ UNCHANGED <<is_recording, stream, pyaudio_instance, processing_thread, worker_pc,
                   audio_buffer, gui, fused, log, notWorker>>

\* audio_callback, lines 617-621, called by the running stream; the queue is
\* queue.Queue() of line 53, without a capacity, so put does not wait
AudioCallback ==
    /\ stream = "active"
    /\ is_recording
    /\ captured < MaxChunks
    /\ captured' = captured + 1
    /\ audio_queue' = Append(audio_queue, captured + 1)
    /\ UNCHANGED <<is_recording, stream, pyaudio_instance, processing_thread, worker_pc,
                   audio_buffer, gui, fused, log, notWorker>>

\* what a step of a worker leaves alone
WorkerFrame == <<is_recording, stream, pyaudio_instance, processing_thread, gui, captured,
                 log, notWorker>>

\* the loop test that ends the worker as soon as recording has stopped,
\* whatever it holds
InnerTest_stop_ends_worker(w) ==
    /\ worker_pc[w] = "inner"
    /\ worker_pc' = [worker_pc EXCEPT ![w] =
            IF ~is_recording THEN "dead"
            ELSE IF Len(audio_buffer[w]) < max_chunks THEN "get" ELSE "check"]
    /\ UNCHANGED <<audio_queue, audio_buffer, fused, WorkerFrame>>

\* the outer loop written as while True: the flag is not tested
OuterTest_ignores_flag(w) ==
    /\ worker_pc[w] = "outer"
    /\ worker_pc' = [worker_pc EXCEPT ![w] = "inner"]
    /\ UNCHANGED <<audio_queue, audio_buffer, fused, WorkerFrame>>

\* line 629: while self.is_recording
OuterTest(w) ==
    /\ worker_pc[w] = "outer"
    /\ worker_pc' = [worker_pc EXCEPT ![w] = IF is_recording THEN "inner" ELSE "dead"]
    /\ UNCHANGED <<audio_queue, audio_buffer, fused, WorkerFrame>>

\* line 632: while len(audio_buffer) < max_chunks and self.is_recording
InnerTest(w) ==
    /\ worker_pc[w] = "inner"
    /\ worker_pc' = [worker_pc EXCEPT ![w] =
            IF Len(audio_buffer[w]) < max_chunks /\ is_recording THEN "get" ELSE "check"]
    /\ UNCHANGED <<audio_queue, audio_buffer, fused, WorkerFrame>>

\* lines 633-637: audio_queue.get(timeout=0.1); queue.Empty if nothing came
Get(w) ==
    /\ worker_pc[w] = "get"
    /\ worker_pc' = [worker_pc EXCEPT ![w] = "inner"]
    /\ IF audio_queue # << >>
       THEN /\ audio_buffer' = [audio_buffer EXCEPT ![w] = Append(@, Head(audio_queue))]
            /\ audio_queue' = Tail(audio_queue)
       ELSE UNCHANGED <<audio_buffer, audio_queue>>
    /\ UNCHANGED <<fused, WorkerFrame>>

\* lines 639-656: an empty buffer restarts the loop; else the window is written
\* to a file and the collaborators are called
CheckBuffer(w) ==
    /\ worker_pc[w] = "check"
    /\ worker_pc' = [worker_pc EXCEPT ![w] = IF audio_buffer[w] = << >> THEN "outer" ELSE "process"]
    /\ UNCHANGED <<audio_queue, audio_buffer, fused, WorkerFrame>>

\* what the display of a window by a worker leaves alone
FuseFrame == <<is_recording, audio_queue, stream, pyaudio_instance, processing_thread, gui,
               captured, log, google_results, diarization, pyannote_results, combined,
               conversations, transcript_text, raised, regVars, obsVars, concVars, resVars,
               streamVars, svcVars, filterVars>>

\* the two result lists of a window of these runs, each empty or not
FuseResults == {<< >>, HelloWorldGoogle} \X {<< >>, << <<0, 10, 0>> >>}

\* the worker whose else branch (lines 681-683) goes on to the next iteration
\* at once, past the clean-up of lines 685-687
Fuse_neither_skips_cleanup(w) ==
    /\ worker_pc[w] = "process"
    /\ \E r \in FuseResults :
        /\ branch' = window_branch(r[1], r[2])
        /\ IF branch' = "neither"
           THEN UNCHANGED <<fused, audio_buffer>>
           ELSE /\ fused' = Append(fused, audio_buffer[w])
                /\ audio_buffer' = [audio_buffer EXCEPT ![w] = << >>]
    /\ worker_pc' = [worker_pc EXCEPT ![w] = "outer"]
    /\ UNCHANGED FuseFrame

\* lines 655-687: the collaborator calls return, however long they took, each
\* with results or with none; the window goes through the branch of lines
\* 668-683 for them, and the buffer is emptied (line 687)
Fuse(w) ==
    /\ worker_pc[w] = "process"
    /\ \E r \in FuseResults : branch' = window_branch(r[1], r[2])
    /\ fused' = Append(fused, audio_buffer[w])
    /\ audio_buffer' = [audio_buffer EXCEPT ![w] = << >>]
    /\ worker_pc' = [worker_pc EXCEPT ![w] = "outer"]
    /\ UNCHANGED FuseFrame

NextWorker ==
    \/ StartRecording
    \/ StartRefused
    \/ StartOpenFails
    \/ StopRecording
    \/ JoinReturns
    \/ AudioCallback
    \/ \E w \in Workers :
        \/ OuterTest(w)
        \/ InnerTest(w)
        \/ Get(w)
        \/ CheckBuffer(w)
        \/ Fuse(w)

SpecWorker == InitWorker /\ [][NextWorker]_vars

-----------------------------------------------------------------------------
(* Windows end to end, and the degraded branches *)

\* a step of the worker that processes a window
WindowStep == branch = "collecting" /\ branch' \in LiveBranches

(* C11: from a fresh session, the words hello at [0,0.5] and world at       *)
(* [0.5,1.0] with one diarization turn [0,1] labelled SPEAKER_00 give       *)
(* exactly one conversation segment, with speaker 0, text "hello world" and *)
(* start_time 0, and the statistics {0: 2}.                                 *)
C11_HelloWorldEndToEnd ==
    [][(/\ branch = "collecting"
        /\ global_speaker_mapping = EmptyDict
        /\ next_global_speaker_id = 0
        /\ speaker_stats = EmptyDict
        /\ branch' \in LiveBranches
        /\ raised' = {}
        /\ google_results' = HelloWorldGoogle
        /\ diarization' = HelloWorldDiarization)
       => /\ conversations' = << [speaker |-> 0,
                                  text |-> hello \o <<" ">> \o world,
                                  start_time |-> 0] >>
          /\ speaker_stats' = [s \in {0} |-> 2]
          /\ global_speaker_mapping' = [l \in {"SPEAKER_00"} |-> 0]]_vars

\* the first window of a session carried the two words of the example
C11_Witness ==
    /\ branch = "both"
    /\ google_results = HelloWorldGoogle
    /\ diarization = HelloWorldDiarization
    /\ next_global_speaker_id = 1
    /\ Len(conversations) = 1
    /\ speaker_stats = [s \in {0} |-> 2]

C14_ActivitySummaryPerTurn ==
    [][(WindowStep /\ google_results' = << >> /\ pyannote_results' # << >>)
       => LET active == {pyannote_results'[i][3] : i \in 1..Len(pyannote_results')} IN
          /\ conversations' = << >>
          /\ Len(transcript_text') = Len(pyannote_results')
          /\ \A i \in 1..Len(transcript_text') :
                /\ transcript_text'[i].kind = "activity"
                /\ pyannote_results'[i][3] \in transcript_text'[i].speakers
          /\ DOMAIN speaker_stats' = DOMAIN speaker_stats \cup active
          /\ \A s \in active : speaker_stats'[s] >= DictGet(speaker_stats, s, 0) + 1
          /\ \A s \in DOMAIN speaker_stats' \ active : speaker_stats'[s] = speaker_stats[s]]_vars

(* C15: in a window where both the transcription and the diarization are    *)
(* empty nothing is displayed, and the registry mapping, its counter and    *)
(* the statistics are unchanged by the window.                              *)
C15_EmptyWindowChangesNothing ==
    [][(WindowStep /\ google_results' = << >> /\ pyannote_results' = << >>)
       => /\ branch' = "neither"
          /\ transcript_text' = << >>
          /\ conversations' = << >>
          /\ UNCHANGED regVars]_vars

\* an empty window in a session that has speakers and counts
C15_Witness ==
    /\ branch = "neither"
    /\ raised = {}
    /\ transcript_text = << >>
    /\ DOMAIN speaker_stats = {0, 1}
    /\ next_global_speaker_id = 2

(* C16: a collaborator call that raises in a window counts as an empty      *)
(* result of that collaborator for that window: the window is branched,     *)
(* displayed and counted as the same window with that result empty, so the  *)
(* other collaborator's result is still shown; the worker then goes back to *)
(* collecting the next window.                                              *)
C16_RaisingCallIsEmptyResult ==
    [][/\ (WindowStep /\ raised' # {})
          => LET quiet == process_window(
                            IF "google" \in raised' THEN << >> ELSE google_results', FALSE,
                            IF "pyannote" \in raised' THEN << >> ELSE diarization', FALSE,
                            global_speaker_mapping, next_global_speaker_id, speaker_stats)
             IN /\ branch' = quiet.branch
                /\ branch' \in {"google_only", "pyannote_only", "neither"}
                /\ transcript_text' = quiet.transcript_text
                /\ speaker_stats' = quiet.stats
                /\ global_speaker_mapping' = quiet.mapping
                /\ next_global_speaker_id' = quiet.next_id
       /\ (branch # "collecting" /\ raised # {})
          => /\ branch' = "collecting"
             /\ UNCHANGED regVars]_vars

\* recognize raised and the window still shows who spoke
C16_Witness ==
    /\ raised = {"google"}
    /\ branch = "pyannote_only"
    /\ Len(pyannote_results) = 2
    /\ transcript_text # << >>
    /\ DOMAIN speaker_stats = {0, 1}

(* C13: loading a file runs the fusion of a live window: for each of the    *)
(* four combinations of empty and non-empty transcription and diarization   *)
(* process_uploaded_file attributes and counts as the worker does for a     *)
(* window with those results; a file with a non-empty transcription and an  *)
(* empty diarization has all its words attributed to speaker 0 and counted. *)
C13_UploadFusesAsLiveWindow ==
    [][(branch = "uploading" /\ branch' \in FileBranches)
       => LET live == display_window(google_results', pyannote_results', speaker_stats) IN
          /\ combined' = live.combined
          /\ conversations' = live.conversations
          /\ speaker_stats' = live.stats
          /\ (google_results' # << >> /\ pyannote_results' = << >>)
                => /\ transcript_text' = DefaultSpeakerLines(google_results')
                   /\ speaker_stats' = [s \in {0} |-> Len(WordsOf(google_results'))]]_vars

-----------------------------------------------------------------------------
(* The streaming recorder of src/speaker-test-1.py: the GUI thread, the      *)
(* audio callback, transcription_worker and speaker_analysis_worker.  Here   *)
(* worker_pc maps these two threads to their positions and audio_buffer is   *)
(* the deque the callback appends to.                                        *)

StreamThreads == {"transcription", "speaker_analysis"}

\* max_retries of transcription_worker
max_retries == 3

InitStreaming ==
    /\ global_speaker_mapping = EmptyDict
    /\ next_global_speaker_id = 0
    /\ speaker_stats = EmptyDict
    /\ ObsIdle
    /\ ConcIdle
    /\ ResIdle
    /\ WinIdle
    /\ StreamIdle
    /\ is_recording = FALSE
    /\ audio_queue = << >>
    /\ stream = "none"
    /\ pyaudio_instance = "none"
    /\ processing_thread = 0
    /\ worker_pc = [t \in StreamThreads |-> "unborn"]
    /\ audio_buffer = << >>
    /\ gui = "idle"
    /\ captured = 0
    /\ fused = << >>
    /\ log = "none"
    /\ speech_client \in BOOLEAN
    /\ diarization_pipeline = FALSE
    /\ program = "streaming"

\* Thread.is_alive()
ThreadAlive(t) == worker_pc[t] \notin {"unborn", "dead"}

\* start_recording, lines 307-365, reached from toggle_recording while not
\* recording, in the runs where the threads of the last recording have ended
StartStreaming ==
    /\ gui = "idle"
    /\ ~is_recording
    /\ speech_client
    /\ \A t \in StreamThreads : ~ThreadAlive(t)
    /\ log' = "started"
    /\ pyaudio_instance' = "live"
    /\ stream' = "active"
    /\ is_recording' = TRUE
    /\ audio_buffer' = << >>
    /\ worker_pc' = [t \in StreamThreads |-> "loop"]
    /\ retry_count' = 0
    /\ stop_ended' = "none"
    /\ UNCHANGED <<audio_queue, processing_thread, gui, captured, fused, notStreaming>>

\* start_recording, lines 309-311: no speech client; logged, and the call
\* returns
StreamingStartRefused ==
    /\ gui = "idle"
    /\ ~is_recording
    /\ ~speech_client
    /\ log' = "google_not_ready"
    /\ UNCHANGED <<is_recording, audio_queue, stream, pyaudio_instance, processing_thread,
                   worker_pc, audio_buffer, gui, captured, fused, streamVars, notStreaming>>

\* start_recording, lines 313-329 and 366-368: pyaudio.PyAudio() or open raises
\* before line 331; the handler logs the error and clears is_recording
StreamingOpenFails ==
    /\ gui = "idle"
    /\ ~is_recording
    /\ speech_client
    /\ \A t \in StreamThreads : ~ThreadAlive(t)
    /\ pyaudio_instance' \in {pyaudio_instance, "live"}
    /\ is_recording' = FALSE
    /\ log' = "start_error"
    /\ UNCHANGED <<audio_queue, stream, processing_thread, worker_pc, audio_buffer, gui,
                   captured, fused, streamVars, notStreaming>>

\* audio_callback, lines 422-429
StreamingCallback ==
    /\ stream = "active"
    /\ is_recording
    /\ captured < MaxChunks
    /\ captured' = captured + 1
    /\ audio_queue' = Append(audio_queue, captured + 1)
    /\ audio_buffer' = Append(audio_buffer, captured + 1)
    /\ UNCHANGED <<is_recording, stream, pyaudio_instance, processing_thread, worker_pc, gui,
                   fused, log, streamVars, notStreaming>>

\* what a step of a thread of the streaming recorder leaves alone
StreamFrame == <<stream, pyaudio_instance, processing_thread, audio_buffer, gui, captured,
                 fused, log, notStreaming>>

\* transcription_worker, line 436: while self.is_recording and retry_count < max_retries
TranscriptionLoopTest ==
    /\ worker_pc["transcription"] = "loop"
    /\ worker_pc' = [worker_pc EXCEPT !["transcription"] =
            IF is_recording /\ retry_count < max_retries THEN "streaming" ELSE "dead"]
    /\ UNCHANGED <<is_recording, audio_queue, streamVars, StreamFrame>>

\* request_generator, lines 463-478: a chunk is taken from the queue and sent
SendChunk ==
    /\ worker_pc["transcription"] = "streaming"
    /\ is_recording
    /\ audio_queue # << >>
    /\ audio_queue' = Tail(audio_queue)
    /\ UNCHANGED <<is_recording, worker_pc, streamVars, StreamFrame>>

\* lines 490-518: the responses end without an error
StreamingEnds ==
    /\ worker_pc["transcription"] = "streaming"
    /\ worker_pc' = [worker_pc EXCEPT !["transcription"] = "loop"]
    /\ retry_count' = 0
    /\ UNCHANGED <<is_recording, audio_queue, stop_ended, StreamFrame>>

\* lines 520-541 for an error "400 ... Audio Timeout": a retry with an emptied
\* queue, or after max_retries of them the worker stops the recording
AudioTimeout ==
    /\ worker_pc["transcription"] = "streaming"
    /\ retry_count' = retry_count + 1
    /\ IF retry_count + 1 < max_retries
       THEN /\ audio_queue' = << >>
            /\ worker_pc' = [worker_pc EXCEPT !["transcription"] = "loop"]
       ELSE /\ audio_queue' = audio_queue
            /\ worker_pc' = [worker_pc EXCEPT !["transcription"] =
                    IF is_recording THEN "stopping" ELSE "dead"]
    /\ UNCHANGED <<is_recording, stop_ended, StreamFrame>>

\* lines 520-541 for any other error: logged, and the worker ends
OtherStreamingError ==
    /\ worker_pc["transcription"] = "streaming"
    /\ retry_count < max_retries
    /\ worker_pc' = [worker_pc EXCEPT !["transcription"] = "dead"]
    /\ UNCHANGED <<is_recording, audio_queue, streamVars, StreamFrame>>

\* line 540: stop_recording run by transcription_worker itself.  Line 373
\* clears the flag; self.transcription_thread is the running thread, so
\* is_alive() is true and join (line 378) raises RuntimeError("cannot join
\* current thread"); the error leaves stop_recording and ends the thread
\* before lines 384-389 are reached
WorkerStopRecording ==
    /\ worker_pc["transcription"] = "stopping"
    /\ is_recording' = FALSE
    /\ worker_pc' = [worker_pc EXCEPT !["transcription"] = "dead"]
    /\ stop_ended' = "worker"
    /\ UNCHANGED <<audio_queue, retry_count, StreamFrame>>

\* speaker_analysis_worker, lines 545-557: the loop test, then an analysis of
\* the buffer when one is due
SpeakerAnalysisTest ==
    /\ worker_pc["speaker_analysis"] = "loop"
    /\ ~is_recording \/ audio_buffer # << >>
    /\ worker_pc' = [worker_pc EXCEPT !["speaker_analysis"] =
            IF is_recording THEN "analyzing" ELSE "dead"]
    /\ UNCHANGED <<is_recording, audio_queue, streamVars, StreamFrame>>

\* the ways process_speaker_diarization returns with chunks in the buffer:
\* at line 826 after the analysis, at line 620 for audio too long for the
\* API, at lines 624, 687, 695 and 707 for no credentials, a refused request
\* and a response without results or words, and from the handler of line 828
AnalysisOutcomes == {"success", "too_long", "early_return", "error"}

\* the buffer after lines 611-617 or 814-823: its last n chunks
KeepRecent(buffer, n) ==
    IF Len(buffer) > n THEN SubSeq(buffer, Len(buffer) - n + 1, Len(buffer)) ELSE buffer

\* audio_buffer when process_speaker_diarization returns by the given way
BufferAfterAnalysis(buffer, outcome) ==
    IF outcome \in {"success", "too_long"} THEN KeepRecent(buffer, max_buffer_chunks)
    ELSE buffer

\* lines 557-560: process_speaker_diarization returns
AnalysisReturns ==
    /\ worker_pc["speaker_analysis"] = "analyzing"
    /\ worker_pc' = [worker_pc EXCEPT !["speaker_analysis"] = "loop"]
    /\ \E outcome \in AnalysisOutcomes :
          audio_buffer' = BufferAfterAnalysis(audio_buffer, outcome)
    /\ UNCHANGED <<is_recording, audio_queue, stream, pyaudio_instance, processing_thread,
                   gui, captured, fused, log, streamVars, notStreaming>>

\* stop_recording, line 373, reached from toggle_recording while recording
UserStopRecording ==
    /\ gui = "idle"
    /\ is_recording
    /\ is_recording' = FALSE
    /\ gui' = "join_transcription"
    /\ UNCHANGED <<audio_queue, stream, pyaudio_instance, processing_thread, worker_pc,
                   audio_buffer, captured, fused, log, streamVars, notStreaming>>

\* lines 376-378: join(timeout=2) of the transcription thread returns when it
\* has ended, or after the timeout while it is held in the streaming call
JoinTranscription ==
    /\ gui = "join_transcription"
    /\ worker_pc["transcription"] \in {"dead", "streaming"}
    /\ gui' = "join_speaker_analysis"
    /\ UNCHANGED <<is_recording, audio_queue, stream, pyaudio_instance, processing_thread,
                   worker_pc, audio_buffer, captured, fused, log, streamVars, notStreaming>>

\* lines 380-412: the join of the analysis thread returns likewise; then the
\* stream is stopped and closed, PyAudio terminated and the queue emptied
JoinAnalysisAndRelease ==
    /\ gui = "join_speaker_analysis"
    /\ worker_pc["speaker_analysis"] \in {"dead", "analyzing"}
    /\ stream' = "closed"
    /\ pyaudio_instance' = "terminated"
    /\ audio_queue' = << >>
    /\ gui' = "final_analysis"
    /\ UNCHANGED <<is_recording, processing_thread, worker_pc, audio_buffer, captured, fused,
                   log, streamVars, notStreaming>>

\* lines 414-420: the final analysis of what is in the buffer, if anything;
\* stop_recording returns
FinalAnalysisReturns ==
    /\ gui = "final_analysis"
    /\ gui' = "idle"
    /\ stop_ended' = "user"
    /\ \E outcome \in AnalysisOutcomes :
          audio_buffer' = BufferAfterAnalysis(audio_buffer, outcome)
    /\ UNCHANGED <<is_recording, audio_queue, stream, pyaudio_instance, processing_thread,
                   worker_pc, captured, fused, log, retry_count, notStreaming>>

NextStreaming ==
    \/ StartStreaming
    \/ StreamingStartRefused
    \/ StreamingOpenFails
    \/ StreamingCallback
    \/ TranscriptionLoopTest
    \/ SendChunk
    \/ StreamingEnds
    \/ AudioTimeout
    \/ OtherStreamingError
    \/ WorkerStopRecording
    \/ SpeakerAnalysisTest
    \/ AnalysisReturns
    \/ UserStopRecording
    \/ JoinTranscription
    \/ JoinAnalysisAndRelease
    \/ FinalAnalysisReturns

SpecStreaming == InitStreaming /\ [][NextStreaming]_vars

-----------------------------------------------------------------------------
(* Stopping, ordering and draining *)

\* the chunks of a list
Chunks(q) == {q[i] : i \in 1..Len(q)}

\* the windows of fused that hold chunk c
WindowsOf(c) == {i \in 1..Len(fused) : c \in Chunks(fused[i])}

\* the places that hold chunk c: the queue, a worker's buffer, a fused window
PlacesOf(c) ==
    (IF c \in Chunks(audio_queue) THEN {<<"queue", 0>>} ELSE {})
    \cup {<<"buffer", w>> : w \in {v \in Workers : c \in Chunks(audio_buffer[v])}}
    \cup {<<"fused", i>> : i \in WindowsOf(c)}

C18_WindowsInCaptureOrder ==
    \A b \in 1..captured : \A a \in 1..(b - 1) :
        \A j \in WindowsOf(b) : \E i \in WindowsOf(a) : i <= j

(* C19: stopping lets the worker drain the queue: once recording is stopped *)
(* and the workers have ended, every chunk enqueued is in a fused window    *)
(* and none is left in the queue.                                           *)
C19_StopDrainsQueue ==
    (/\ ~is_recording
     /\ processing_thread > 0
     /\ \A w \in Workers : ~IsAlive(w))
    => /\ audio_queue = << >>
       /\ \A c \in 1..captured : WindowsOf(c) # {}

(* C20: every path that stops a session, the user's stop or the stop a      *)
(* worker thread makes after a streaming error, ends with is_recording      *)
(* false and the audio device released: the stream stopped and closed and   *)
(* PyAudio terminated; the joins are bounded by their timeout.              *)
C20_StopReleasesDevice ==
    (stop_ended # "none" /\ gui = "idle")
    => /\ ~is_recording
       /\ stream = "closed"
       /\ pyaudio_instance = "terminated"

-----------------------------------------------------------------------------
(* Starting a session *)

\* a step in which start_recording ran: it logs on each of its paths
StartRecordingRan == log' # log

(* C21: with exactly one of the two collaborators not configured at         *)
(* startup, a live session can still be started: a call of start_recording  *)
(* that does not fail on the audio device sets is_recording and starts the  *)
(* processing worker, whose windows are then fused with the results of the  *)
(* available collaborator.                                                  *)
C21_DegradedSessionStarts ==
    [][(/\ StartRecordingRan
        /\ speech_client # diarization_pipeline
        /\ log' # "start_error")
       => /\ is_recording'
          /\ processing_thread' > 0
          /\ worker_pc'[processing_thread'] = "outer"]_vars

-----------------------------------------------------------------------------
(* A session with its buttons: live windows, a file upload that runs in its *)
(* own thread while the live worker goes on, Clear and Reset Speakers.      *)

\* the windows of these runs: both results, transcription only, diarization
\* only, neither, and a window whose recognize call raises
SessionCalls ==
    {<<HelloWorldGoogle, FALSE, HelloWorldDiarization, FALSE>>,
     <<<< ResultOf(<< WordAt(hi, 0, 5) >>) >>, FALSE, << >>, FALSE>>,
     <<<< >>, FALSE, << <<0, 5, LabelNames[2]>> >>, FALSE>>,
     <<<< >>, FALSE, << >>, FALSE>>,
     <<<< >>, TRUE, << <<0, 5, LabelNames[1]>> >>, FALSE>>}

\* the files of these runs: one that is no .wav, a .wav with both results and
\* a .wav in which the pipeline finds no speaker
SessionFiles ==
    {<<FALSE, << >>, FALSE, << <<0, 5, LabelNames[1]>> >>, FALSE>>,
     <<TRUE, HelloWorldGoogle, FALSE, HelloWorldDiarization, FALSE>>,
     <<TRUE, << ResultOf(<< WordAt(hi, 0, 5) >>) >>, FALSE, << >>, FALSE>>}

\* processing_worker, lines 655-687, for a window of a recording that goes on
\* while the thread of line 368 is still inside process_uploaded_file: the
\* registry and the statistics are those of the one object both threads use
WindowDuringUpload(response, recognize_raises, diar, pipeline_raises) ==
    /\ branch = "uploading"
    /\ SumDict(speaker_stats, DOMAIN speaker_stats) < MaxCounted
    /\ \E w \in {process_window(response, recognize_raises, diar, pipeline_raises,
                            global_speaker_mapping, next_global_speaker_id, speaker_stats)} :
        /\ global_speaker_mapping' = w.mapping
        /\ next_global_speaker_id' = w.next_id
        /\ speaker_stats' = w.stats
        /\ UNCHANGED <<winVars, notWindow>>

\* clear_all, lines 934-941 (the definition that replaces the one of line
\* 302): the displays and the statistics are cleared
ClearAll ==
    /\ branch \in {"collecting", "uploading"}
    /\ transcript_text' = << >>
    /\ speaker_stats' = EmptyDict
    /\ UNCHANGED <<global_speaker_mapping, next_global_speaker_id, google_results, diarization,
                   pyannote_results, combined, conversations, branch, raised, notWindow>>

\* the Reset Speakers button, line 135: reset_speakers, lines 332-338
PressResetSpeakers ==
    /\ branch \in {"collecting", "uploading"}
    /\ \E r \in {reset_speakers(global_speaker_mapping, next_global_speaker_id, speaker_stats)} :
        /\ global_speaker_mapping' = r.mapping
        /\ next_global_speaker_id' = r.next_id
        /\ speaker_stats' = r.stats
    /\ UNCHANGED <<winVars, notWindow>>

NextSession ==
    \/ \E call \in SessionCalls : ProcessWindow(call[1], call[2], call[3], call[4])
    \/ Collect
    \/ UploadAudioFile
    \/ \E call \in SessionCalls : WindowDuringUpload(call[1], call[2], call[3], call[4])
    \/ \E file \in SessionFiles :
            ProcessUploadedFile(file[1], file[2], file[3], file[4], file[5])
    \/ FileDone
    \/ ClearAll
    \/ PressResetSpeakers

SpecSession == InitWindow /\ [][NextSession]_vars

\* a step that takes a speaker's entry away or lowers a speaker's count
StatsShrink ==
    \E s \in DOMAIN speaker_stats :
        s \notin DOMAIN speaker_stats' \/ speaker_stats'[s] < speaker_stats[s]

(* C22: between two explicit clears the statistics only grow: in every      *)
(* sequence and interleaving of live windows and file uploads, a step that  *)
(* lowers a speaker's word count or removes a speaker's entry is a step of  *)
(* clear_all or reset_speakers (the Clear button, the Reset Speakers button *)
(* or the two calls at the start of an upload).                             *)
C22_StatsOnlyGrow ==
    [][StatsShrink => (ClearAll \/ PressResetSpeakers \/ UploadAudioFile)]_vars

(* C23: reset changes only the registry: it clears the mapping and sets the *)
(* counter to 0, and leaves the statistics and the transcript already       *)
(* displayed unchanged, whenever it is called.                              *)
C23_ResetChangesOnlyRegistry ==
    [][PressResetSpeakers
       => /\ global_speaker_mapping' = EmptyDict
          /\ next_global_speaker_id' = 0
          /\ UNCHANGED <<speaker_stats, transcript_text>>]_vars

-----------------------------------------------------------------------------
(* The registry inside a window *)

\* the place in combined_results of the first word attributed to global id g,
\* 0 if no word is
FirstWordOf(c, g) ==
    IF \E i \in 1..Len(c) : c[i].speaker = g
    THEN CHOOSE i \in 1..Len(c) : c[i].speaker = g /\ \A j \in 1..(i - 1) : c[j].speaker # g
    ELSE 0

(* C24: in a window where both results are non-empty the registry is        *)
(* consulted per word attribution: a label that enters the registry in the  *)
(* window has a word of the window attributed to it, and the labels that    *)
(* enter get their global ids in the order in which they first receive a    *)
(* word; a label whose turns receive no word is not allocated a global id.  *)
C24_IdsAllocatedPerAttribution ==
    [][(WindowStep /\ branch' = "both")
       => LET entered == DOMAIN global_speaker_mapping' \ DOMAIN global_speaker_mapping
              first(l) == FirstWordOf(combined', global_speaker_mapping'[l])
          IN /\ \A l \in entered : first(l) > 0
             /\ \A l \in entered : \A m \in entered :
                   global_speaker_mapping'[l] < global_speaker_mapping'[m]
                       => first(l) < first(m)]_vars

\* best_speaker of a word when there is no turn at all: the default of line
\* 827, which is also the speaker display_google_only_results counts for
DefaultLabel == best_speaker_of_word(WordAt(hi, 0, 5), << >>)

\* the entries of the statistics that the step makes or raises
Counted == {s \in DOMAIN speaker_stats' : speaker_stats'[s] # DictGet(speaker_stats, s, 0)}

(* C25: the default label used when no turns exist is a sentinel distinct   *)
(* from every global speaker id the registry allocates, so the words of a   *)
(* transcription-only window are never counted in the statistics entry of a *)
(* diarized speaker.                                                        *)
C25_DefaultLabelIsSentinel ==
    [][WindowStep
       => LET allocated == {global_speaker_mapping'[l] : l \in DOMAIN global_speaker_mapping'}
          IN /\ DefaultLabel \notin allocated
             /\ branch' = "google_only" => Counted \cap allocated = {}]_vars

-----------------------------------------------------------------------------
(* The loop of the processing worker *)

\* the branches of lines 668-683
FusionBranches == {"both", "google_only", "pyannote_only", "neither"}

C27_CaptureNeverWaits ==
    (is_recording /\ captured < MaxChunks) => ENABLED AudioCallback

\* while the worker is held in the calls for a full window, the queue has
\* grown and the callback can still enqueue
C27_Witness ==
    /\ is_recording
    /\ worker_pc[processing_thread] = "process"
    /\ Len(audio_buffer[processing_thread]) = max_chunks
    /\ audio_queue # << >>
    /\ captured < MaxChunks
    /\ ENABLED AudioCallback

-----------------------------------------------------------------------------
(* The streaming recogniser of src/google_speaker_diarization.py: the GUI    *)
(* thread, audio_capture_worker and main_streaming_loop.  Each recording     *)
(* starts a thread of either kind and stop_recording joins none of them;     *)
(* processing_thread counts the recordings started.  The fields stream and   *)
(* pyaudio_instance are set back to None by stop_recording.                  *)

GoogleThreads == Workers \X {"capture", "transcription"}

InitGoogle ==
    /\ global_speaker_mapping = EmptyDict
    /\ next_global_speaker_id = 0
    /\ speaker_stats = EmptyDict
    /\ ObsIdle
    /\ ConcIdle
    /\ ResIdle
    /\ WinIdle
    /\ StreamIdle
    /\ is_recording = FALSE
    /\ audio_queue = << >>
    /\ stream = "none"
    /\ pyaudio_instance = "none"
    /\ processing_thread = 0
    /\ worker_pc = [t \in GoogleThreads |-> "unborn"]
    /\ audio_buffer = << >>
    /\ gui = "idle"
    /\ captured = 0
    /\ fused = << >>
    /\ log = "none"
    /\ speech_client = TRUE
    /\ diarization_pipeline = FALSE
    /\ program = "google"

\* what a step of the GUI thread leaves alone besides the fields it names
GoogleGuiFrame == <<audio_queue, audio_buffer, captured, fused, streamVars, notStreaming>>

\* what a step of a worker thread leaves alone besides the fields it names
GoogleThreadFrame == <<processing_thread, audio_buffer, gui, fused, log, streamVars,
                       notStreaming>>

\* start_recording, lines 322-326, reached from toggle_recording while not
\* recording: the flag is set before the device is opened
GoogleStartBegins ==
    /\ gui = "idle"
    /\ ~is_recording
    /\ is_recording' = TRUE
    /\ gui' = "starting"
    /\ UNCHANGED <<stream, pyaudio_instance, processing_thread, worker_pc, log, GoogleGuiFrame>>

\* start_recording, lines 328-349: PyAudio and the stream are opened and the
\* two threads are started
GoogleStartOpens ==
    /\ gui = "starting"
    /\ processing_thread < MaxSessions
    /\ pyaudio_instance' = "live"
    /\ stream' = "active"
    /\ processing_thread' = processing_thread + 1
    /\ worker_pc' = [t \in GoogleThreads |->
            IF t = <<processing_thread + 1, "capture">> THEN "loop"
            ELSE IF t = <<processing_thread + 1, "transcription">> THEN "streaming"
            ELSE worker_pc[t]]
    /\ log' = "started"
    /\ gui' = "idle"
    /\ UNCHANGED <<is_recording, GoogleGuiFrame>>

\* the handler of a failed start without its call of stop_recording
GoogleOpenFails_no_stop ==
    /\ gui = "starting"
    /\ log' = "start_error"
    /\ gui' = "idle"
    /\ UNCHANGED <<is_recording, stream, pyaudio_instance, processing_thread, worker_pc,
                   GoogleGuiFrame>>

\* start_recording, lines 328-336 and 350-352: pyaudio.PyAudio() or open
\* raises; the handler logs the error and calls stop_recording (lines
\* 354-372), which clears the flag and releases what there is to release
GoogleOpenFails ==
    /\ gui = "starting"
    /\ log' = "start_error"
    /\ is_recording' = FALSE
    /\ stream' = "none"
    /\ pyaudio_instance' = "none"
    /\ gui' = "idle"
    /\ UNCHANGED <<processing_thread, worker_pc, GoogleGuiFrame>>

\* stop_recording, lines 354-372, reached from toggle_recording while recording
GoogleStopRecording ==
    /\ gui = "idle"
    /\ is_recording
    /\ is_recording' = FALSE
    /\ stream' = "none"
    /\ pyaudio_instance' = "none"
    /\ UNCHANGED <<processing_thread, worker_pc, gui, log, GoogleGuiFrame>>

\* audio_capture_worker, line 378: while self.is_recording
CaptureLoopTest(n) ==
    /\ worker_pc[<<n, "capture">>] = "loop"
    /\ worker_pc' = [worker_pc EXCEPT ![<<n, "capture">>] =
            IF is_recording THEN "read" ELSE "dead"]
    /\ UNCHANGED <<is_recording, audio_queue, stream, pyaudio_instance, captured,
                   GoogleThreadFrame>>

\* lines 380-382: a chunk is read from the stream and enqueued; nothing is
\* done while self.stream is None
CaptureRead(n) ==
    /\ worker_pc[<<n, "capture">>] = "read"
    /\ worker_pc' = [worker_pc EXCEPT ![<<n, "capture">>] = "loop"]
    /\ IF stream = "active"
       THEN /\ captured < MaxChunks
            /\ captured' = captured + 1
            /\ audio_queue' = Append(audio_queue, captured + 1)
       ELSE UNCHANGED <<captured, audio_queue>>
    /\ UNCHANGED <<is_recording, stream, pyaudio_instance, GoogleThreadFrame>>

\* lines 383-386: read raises on a stream that stop_recording closed under
\* it; the thread ends
CaptureReadFails(n) ==
    /\ worker_pc[<<n, "capture">>] = "read"
    /\ stream # "active"
    /\ worker_pc' = [worker_pc EXCEPT ![<<n, "capture">>] = "dead"]
    /\ UNCHANGED <<is_recording, audio_queue, stream, pyaudio_instance, captured,
                   GoogleThreadFrame>>

\* microphone_stream, lines 390-397: a chunk is taken from the queue and sent
\* while recording
GoogleSendChunk(n) ==
    /\ worker_pc[<<n, "transcription">>] = "streaming"
    /\ is_recording
    /\ audio_queue # << >>
    /\ audio_queue' = Tail(audio_queue)
    /\ UNCHANGED <<is_recording, stream, pyaudio_instance, worker_pc, captured,
                   GoogleThreadFrame>>

\* main_streaming_loop, lines 440-468: the responses end, or the loop is left
\* at line 442 once recording has stopped
GoogleResponsesEnd(n) ==
    /\ worker_pc[<<n, "transcription">>] = "streaming"
    /\ worker_pc' = [worker_pc EXCEPT ![<<n, "transcription">>] = "dead"]
    /\ UNCHANGED <<is_recording, audio_queue, stream, pyaudio_instance, captured,
                   GoogleThreadFrame>>

\* lines 470-473: streaming_recognize raises; while recording, the thread
\* logs the error and calls stop_recording
GoogleStreamingError(n) ==
    /\ worker_pc[<<n, "transcription">>] = "streaming"
    /\ worker_pc' = [worker_pc EXCEPT ![<<n, "transcription">>] = "dead"]
    /\ IF is_recording
       THEN /\ is_recording' = FALSE
            /\ stream' = "none"
            /\ pyaudio_instance' = "none"
       ELSE UNCHANGED <<is_recording, stream, pyaudio_instance>>
    /\ UNCHANGED <<audio_queue, captured, GoogleThreadFrame>>

NextGoogle ==
    \/ GoogleStartBegins
    \/ GoogleStartOpens
    \/ GoogleOpenFails
    \/ GoogleStopRecording
    \/ \E n \in Workers :
        \/ CaptureLoopTest(n)
        \/ CaptureRead(n)
        \/ CaptureReadFails(n)
        \/ GoogleSendChunk(n)
        \/ GoogleResponsesEnd(n)
        \/ GoogleStreamingError(n)

SpecGoogle == InitGoogle /\ [][NextGoogle]_vars

-----------------------------------------------------------------------------
(* start_recording of the three programs.  A run is a run of one of them.   *)

HybridRun == program = "hybrid"

StreamingRun == program = "streaming"

GoogleRun == program = "google"

InitStart == InitWorker \/ InitStreaming \/ InitGoogle

NextStart ==
    \/ HybridRun /\ NextWorker
    \/ StreamingRun /\ NextStreaming
    \/ GoogleRun /\ NextGoogle

SpecStart == InitStart /\ [][NextStart]_vars

\* a step in which start_recording fails to open the audio capture device
FailedStart ==
    \/ HybridRun /\ StartOpenFails
    \/ StreamingRun /\ StreamingOpenFails
    \/ GoogleRun /\ GoogleOpenFails

-----------------------------------------------------------------------------
(* The duplicate-word filter of process_speaker_diarization                  *)
(* (src/speaker-test-1.py, lines 709-739).  A word of the response is a dict *)
(* with the keys word, startTime and speakerTag; the response leaves out a   *)
(* speakerTag it has no value for.  startTime is the text the response       *)
(* carries.  The key f"{word}_{start_time}" is modelled as the pair of the   *)
(* two: a time text holds no underscore, so two keys are equal exactly when  *)
(* the words and the time texts are.                                         *)

\* words per enumerated response
MaxFilterWords == 3

\* dict.get(k, default) on a word of the response
InfoGet(word_info, k, default) == IF k \in DOMAIN word_info THEN word_info[k] ELSE default

\* word_info.get('speakerTag', 1)
TagOf(word_info) == InfoGet(word_info, "speakerTag", 1)

\* word_time_key of line 720
KeyOf(word_info) == <<InfoGet(word_info, "word", << >>), InfoGet(word_info, "startTime", "0s")>>

RECURSIVE FilterLoop_first_wins(_, _, _, _)
\* the loop without its else branch: the first word of a key is kept
FilterLoop_first_wins(ws, i, seen_words, filtered) ==
    IF i > Len(ws) THEN filtered
    ELSE IF KeyOf(ws[i]) \notin DOMAIN seen_words
         THEN FilterLoop_first_wins(ws, i + 1, DictSet(seen_words, KeyOf(ws[i]), ws[i]),
                                    Append(filtered, ws[i]))
         ELSE FilterLoop_first_wins(ws, i + 1, seen_words, filtered)

RECURSIVE FilterLoop(_, _, _, _)
\* lines 714-736, from word i on
FilterLoop(ws, i, seen_words, filtered) ==
    IF i > Len(ws) THEN filtered
    ELSE LET word_info == ws[i]
             word_time_key == KeyOf(word_info)
         IN IF word_time_key \notin DOMAIN seen_words
            THEN FilterLoop(ws, i + 1, DictSet(seen_words, word_time_key, word_info),
                            Append(filtered, word_info))
            ELSE IF TagOf(word_info) < TagOf(seen_words[word_time_key])
                 THEN FilterLoop(ws, i + 1, DictSet(seen_words, word_time_key, word_info),
                        Append(SelectSeq(filtered,
                                         LAMBDA w : ~(/\ w.word = word_info.word
                                                      /\ w.startTime = word_info.startTime)),
                               word_info))
                 ELSE FilterLoop(ws, i + 1, seen_words, filtered)

\* list filtered with its entries of the key of word_info replaced, where
\* they stand, by word_info
ReplaceInPlace(filtered, word_info) ==
    [j \in 1..Len(filtered) |->
        IF KeyOf(filtered[j]) = KeyOf(word_info) THEN word_info ELSE filtered[j]]

RECURSIVE FilterLoop_in_place(_, _, _, _)
\* the loop that puts a word of a lower tag where the word it replaces stood
FilterLoop_in_place(ws, i, seen_words, filtered) ==
    IF i > Len(ws) THEN filtered
    ELSE IF KeyOf(ws[i]) \notin DOMAIN seen_words
         THEN FilterLoop_in_place(ws, i + 1, DictSet(seen_words, KeyOf(ws[i]), ws[i]),
                                  Append(filtered, ws[i]))
         ELSE IF TagOf(ws[i]) < TagOf(seen_words[KeyOf(ws[i])])
              THEN FilterLoop_in_place(ws, i + 1, DictSet(seen_words, KeyOf(ws[i]), ws[i]),
                                       ReplaceInPlace(filtered, ws[i]))
              ELSE FilterLoop_in_place(ws, i + 1, seen_words, filtered)

\* the filter that replaces a word where it stands
filter_duplicate_words_in_place(ws) ==
    FilterLoop_in_place(ws, 1, [k \in {} |-> << >>], << >>)

\* the filter that keeps the first word of every key, whatever its tag
filter_duplicate_words_first_wins(ws) ==
    FilterLoop_first_wins(ws, 1, [k \in {} |-> << >>], << >>)

\* lines 709-739: filtered_words for the words of a response
filter_duplicate_words(ws) == FilterLoop(ws, 1, [k \in {} |-> << >>], << >>)

\* the words of the enumerated responses: "hi" or "yo", at 0 s or 0.5 s, with
\* speaker tag 1, 2 or 3 or with none
WordInfos ==
    [word : {hi, yo}, startTime : {"0s", "0.500s"}, speakerTag : {1, 2, 3}]
    \cup [word : {hi, yo}, startTime : {"0s", "0.500s"}]

InitFilter ==
    /\ global_speaker_mapping = EmptyDict
    /\ next_global_speaker_id = 0
    /\ speaker_stats = EmptyDict
    /\ ObsIdle
    /\ ConcIdle
    /\ ResIdle
    /\ WinIdle
    /\ WorkIdle
    /\ retry_count = 0
    /\ stop_ended = "none"
    /\ speech_client = TRUE
    /\ diarization_pipeline = FALSE
    /\ program = "streaming"
    /\ words_info \in SeqsUpTo(WordInfos, MaxFilterWords) \ {<< >>}
    /\ filtered_words = << >>
    /\ filter_done = FALSE

\* lines 709-739 run on the words of the response
FilterWords ==
    /\ ~filter_done
    /\ filtered_words' = filter_duplicate_words(words_info)
    /\ filter_done' = TRUE
    /\ UNCHANGED <<words_info, regVars, obsVars, concVars, resVars, winVars, workVars,
                   streamVars, svcVars>>

NextFilter == FilterWords

SpecFilter == InitFilter /\ [][NextFilter]_vars

\* the places of list ws that hold a word of key k
PlacesOfKey(ws, k) == {i \in 1..Len(ws) : KeyOf(ws[i]) = k}

(* C29: the duplicate-word filter keeps exactly one entry for each (word,   *)
(* startTime) key of the response and nothing else, and the entry kept for  *)
(* a key has the lowest speaker tag among the entries of that key.          *)
C29_OneEntryPerKeyLowestTag ==
    filter_done =>
        /\ \A i \in 1..Len(words_info) :
              LET k == KeyOf(words_info[i]) IN
              /\ Cardinality(PlacesOfKey(filtered_words, k)) = 1
              /\ \A j \in PlacesOfKey(filtered_words, k) :
                    TagOf(filtered_words[j]) <= TagOf(words_info[i])
        /\ \A j \in 1..Len(filtered_words) :
              \E i \in 1..Len(words_info) : filtered_words[j] = words_info[i]

\* a response that carries one word three times, with tags 2, 3 and 1, and
\* the filter kept the entry of tag 1
C29_Witness ==
    /\ filter_done
    /\ Len(words_info) = 3
    /\ \A i \in 1..3 : KeyOf(words_info[i]) = <<hi, "0.500s">>
    /\ <<TagOf(words_info[1]), TagOf(words_info[2]), TagOf(words_info[3])>> = <<2, 3, 1>>
    /\ filtered_words = << words_info[3] >>

-----------------------------------------------------------------------------
(* The analysis buffer of the streaming recorder *)

\* a call of process_speaker_diarization returns: the one of the analysis
\* worker (line 558) or the final one of stop_recording (line 419)
AnalysisCallReturns ==
    \/ worker_pc["speaker_analysis"] = "analyzing" /\ worker_pc'["speaker_analysis"] = "loop"
    \/ gui = "final_analysis" /\ gui' = "idle"

(* C30: after every call of process_speaker_diarization, on the success     *)
(* path and on every early-return or error path, the analysis buffer holds  *)
(* at most 30 seconds of chunks.                                            *)
C30_BufferTrimmedOnEveryPath ==
    [][AnalysisCallReturns => Len(audio_buffer') <= max_buffer_chunks]_vars

-----------------------------------------------------------------------------
(* The shape of the registry *)

\* the ids the mapping holds
IdsOf(mapping) == {mapping[l] : l \in DOMAIN mapping}

(* C31: after any sequence of resolve and reset calls made one at a time,   *)
(* the registry mapping is injective, its set of values is exactly          *)
(* {0, ..., next_id - 1}, and next_id equals the number of labels in the    *)
(* mapping.                                                                 *)
C31_RegistryDense ==
    /\ \A a, b \in DOMAIN global_speaker_mapping :
          global_speaker_mapping[a] = global_speaker_mapping[b] => a = b
    /\ IdsOf(global_speaker_mapping) = 0..(next_global_speaker_id - 1)
    /\ next_global_speaker_id = Cardinality(DOMAIN global_speaker_mapping)

\* two labels resolved since a reset that followed earlier resolves
C31_Witness ==
    /\ last_call.op = "resolve"
    /\ pre_reset_mapping # EmptyDict
    /\ Cardinality(DOMAIN global_speaker_mapping) = 2
    /\ next_global_speaker_id = 2

-----------------------------------------------------------------------------
(* Workers and the queue across sessions *)

\* worker w is at line 634, taking a chunk from the queue
Consuming(w) == worker_pc[w] = "get"

(* C32: at any time at most one processing worker consumes the audio queue, *)
(* for every sequence of start and stop operations, also for a start issued *)
(* after the join of stop timed out with the previous worker inside a       *)
(* collaborator call: the earlier worker does not resume consuming          *)
(* alongside the new one.                                                   *)
C32_OneConsumer == Cardinality({w \in Workers : Consuming(w)}) <= 1

(* C33: audio captured in one recording session is never fused or           *)
(* transcribed in a later session: when start_recording begins a session    *)
(* the audio queue is empty, for every sequence of start and stop           *)
(* operations.                                                              *)
C33_QueueEmptyAtStart == [][StartRecording => audio_queue = << >>]_vars

-----------------------------------------------------------------------------
(* A processing attempt that raises.  process_google and process_pyannote   *)
(* catch their own errors; the steps around them do not: the temporary file *)
(* and the wave writer (lines 643-652) before the collaborators are called, *)
(* the display of the window and os.unlink (lines 668-686) after them.  The *)
(* handler of lines 689-690 logs the error and the outer loop goes on.      *)

\* where a step of the attempt raises: before the window is displayed, or
\* once it has been
RaisePoints == {"before_display", "after_display"}

\* lines 643-690 when a step raises: line 687 is not reached
FuseRaises(w) ==
    /\ worker_pc[w] = "process"
    /\ Len(fused) < MaxChunks
    /\ \E at \in RaisePoints :
          fused' = IF at = "after_display" THEN Append(fused, audio_buffer[w]) ELSE fused
    /\ worker_pc' = [worker_pc EXCEPT ![w] = "outer"]
    /\ UNCHANGED <<audio_buffer, branch, FuseFrame>>

NextWorkerErrors ==
    \/ NextWorker
    \/ \E w \in Workers : FuseRaises(w)

SpecWorkerErrors == InitWorker /\ [][NextWorkerErrors]_vars

\* a processing attempt of worker w ends, by line 687 or by the handler
AttemptEnds(w) == worker_pc[w] = "process" /\ worker_pc'[w] = "outer"

(* C34: every chunk the worker takes from the queue goes through the fusion *)
(* in exactly one window: after every processing attempt, also one in which *)
(* a step raises, the window buffer is empty, and no chunk is in two fused  *)
(* windows.                                                                 *)
C34_BufferEmptiedOnError ==
    [][\A w \in Workers : AttemptEnds(w) =>
          /\ audio_buffer'[w] = << >>
          /\ \A c \in 1..captured : Cardinality({i \in 1..Len(fused') :
                                        c \in Chunks(fused'[i])}) <= 1]_vars

-----------------------------------------------------------------------------
(* The worker after a stop.  A started thread keeps being scheduled, and a  *)
(* collaborator call that has begun returns: every step of a worker is      *)
(* taken once it stays possible.                                            *)

\* a step of worker w
WorkerStep(w) == OuterTest(w) \/ InnerTest(w) \/ Get(w) \/ CheckBuffer(w) \/ Fuse(w)

\* the sessions whose start_recording finds both services and opens the
\* device: the starts that are refused or fail start no worker
NextWorkerLive ==
    \/ StartRecording
    \/ StopRecording
    \/ JoinReturns
    \/ AudioCallback
    \/ \E w \in Workers : WorkerStep(w)

InitWorkerLive == InitWorker /\ speech_client /\ diarization_pipeline

SpecWorkerLive ==
    InitWorkerLive /\ [][NextWorkerLive]_vars /\ \A w \in Workers : WF_vars(WorkerStep(w))

(* C35: if recording is stopped and not started again, the processing       *)
(* worker eventually terminates, after fusing at most one more window,      *)
(* provided every collaborator call returns: from every state in which      *)
(* recording is off, recording is started again or every worker has ended;  *)
(* and a worker that comes back to the head of its loop while recording is  *)
(* off, as it does after a window, ends there.                              *)
C35_WorkerEndsAfterStop ==
    /\ (~is_recording) ~> (is_recording \/ \A w \in Workers : ~IsAlive(w))
    /\ [][\A w \in Workers :
            (worker_pc[w] = "outer" /\ ~is_recording /\ worker_pc'[w] # "outer")
                => worker_pc'[w] = "dead"]_vars

\* the worker has ended after a stop; its last window, a partial one, was
\* fused after a full one, and the queue still holds a chunk
C35_Witness ==
    /\ ~is_recording
    /\ gui = "idle"
    /\ processing_thread = 1
    /\ worker_pc[1] = "dead"
    /\ Len(fused) = 2
    /\ Len(fused[2]) < max_chunks
    /\ audio_queue # << >>

-----------------------------------------------------------------------------
(* display_results on its own, for lists of attributed words that hold      *)
(* words with an empty or blank text                                        *)

\* words per enumerated list
MaxAggWords == 3

\* the texts of the enumerated words: a word, a blank and the empty text
AggTexts == {hi, <<" ">>, << >>}

\* the entry combine_results builds (lines 851-857) for the i-th word of a
\* list, with text and speaker given by p
AggWord(p, i) ==
    [word |-> p[1], start_time |-> (i - 1) * 5, end_time |-> i * 5, speaker |-> p[2]]

\* the enumerated lists, in the order of their times
AggInputs ==
    {[i \in 1..Len(q) |-> AggWord(q[i], i)] :
        q \in SeqsUpTo(AggTexts \X {0, 1}, MaxAggWords) \ {<< >>}}

InitAggregator ==
    /\ global_speaker_mapping = EmptyDict
    /\ next_global_speaker_id = 0
    /\ speaker_stats = EmptyDict
    /\ ObsIdle
    /\ ConcIdle
    /\ ResIdle
    /\ google_results = << >>
    /\ diarization = << >>
    /\ pyannote_results = << >>
    /\ combined \in AggInputs
    /\ conversations = << >>
    /\ branch = "collecting"
    /\ transcript_text = << >>
    /\ raised = {}
    /\ WorkIdle
    /\ StreamIdle
    /\ SvcReady

\* display_results(combined_results), lines 866-911
DisplayResults ==
    /\ branch = "collecting"
    /\ \E d \in {display_results(combined, speaker_stats)} :
          /\ conversations' = d.conversations
          /\ speaker_stats' = d.stats
    /\ branch' = "both"
    /\ UNCHANGED <<global_speaker_mapping, next_global_speaker_id, google_results, diarization,
                   pyannote_results, combined, transcript_text, raised, notWindow>>

NextAggregator == DisplayResults

SpecAggregator == InitAggregator /\ [][NextAggregator]_vars

(* C36: display_results never outputs two consecutive conversation segments *)
(* with the same speaker, for every ordered list of attributed words, also  *)
(* one that holds words with an empty or blank text.                        *)
C36_NoAdjacentSameSpeaker ==
    branch = "both" =>
        \A k \in 1..(Len(conversations) - 1) :
            conversations[k].speaker # conversations[k + 1].speaker

-----------------------------------------------------------------------------
(* The end of the transcription worker of the streaming recorder *)

\* transcription_worker leaves its loop by the break of line 541, from the
\* handler of a streaming error
EndsOnStreamingError ==
    /\ worker_pc["transcription"] \in {"streaming", "stopping"}
    /\ worker_pc'["transcription"] = "dead"

(* C37: whenever the transcription worker of the streaming recorder ends    *)
(* because of a streaming error while recording is active, the session is   *)
(* stopped: is_recording is false once the worker has ended, for an Audio   *)
(* Timeout after the retries are used up and for every other error.         *)
C37_StreamingErrorStopsSession ==
    [][(EndsOnStreamingError /\ is_recording) => ~is_recording']_vars

-----------------------------------------------------------------------------
(* The order of the filtered words *)

\* the places of the input whose word the filter keeps: for each key the
\* first place that holds the lowest tag of the key
KeptPlaces(ws) ==
    {i \in 1..Len(ws) :
        \A j \in 1..Len(ws) :
            KeyOf(ws[j]) = KeyOf(ws[i]) =>
                \/ TagOf(ws[i]) < TagOf(ws[j])
                \/ TagOf(ws[i]) = TagOf(ws[j]) /\ i <= j}

\* the k-th place of P, counted from the lowest
NthPlace(P, k) == CHOOSE i \in P : Cardinality({j \in P : j < i}) = k - 1

(* C38: the duplicate-word filter preserves the relative order of the words *)
(* it keeps: the filtered list is the words of the kept places of the input *)
(* list, in the order of those places.                                      *)
C38_FilterKeepsInputOrder ==
    filter_done =>
        LET P == KeptPlaces(words_info) IN
        /\ Len(filtered_words) = Cardinality(P)
        /\ \A k \in 1..Len(filtered_words) :
              filtered_words[k] = words_info[NthPlace(P, k)]

\* a word of tag 2, another word, then the first word again with tag 1: the
\* third entry replaced the first and stands after the second
C38_Witness ==
    /\ filter_done
    /\ Len(words_info) = 3
    /\ KeyOf(words_info[1]) = KeyOf(words_info[3])
    /\ KeyOf(words_info[1]) # KeyOf(words_info[2])
    /\ TagOf(words_info[1]) = 2
    /\ TagOf(words_info[3]) = 1
    /\ filtered_words = <<words_info[2], words_info[3]>>

-----------------------------------------------------------------------------
(* The results of the streaming program (src/google_speaker_diarization.py): *)
(* main_streaming_loop hands each result to add_transcription_with_speakers, *)
(* an interim one without words (line 468), a final one with the words of    *)
(* its first alternative (lines 459-465).  speaker_stats is the              *)
(* defaultdict(int) of line 50, transcript_text the entries inserted into    *)
(* the transcript widget since it was cleared.                               *)

\* results shown in the transcript before it is cleared
MaxResults == 3

\* words of one final result
MaxResultWords == 2

\* the speaker tags of the words
ResultTags == {1, 2}

\* the words lists of the enumerated final results; the empty one is a final
\* result without words
ResultWords ==
    SeqsUpTo([word : {hi}, speaker_tag : ResultTags], MaxResultWords)

RECURSIVE CountTags_assigns(_, _, _)
\* the loop with "= 1" for "+= 1"
CountTags_assigns(ws, i, stats) ==
    IF i > Len(ws) THEN stats
    ELSE CountTags_assigns(ws, i + 1, DictSet(stats, ws[i].speaker_tag, 1))

RECURSIVE CountTags(_, _, _)
\* lines 236-243: self.speaker_stats[speaker_tag] += 1 for each word, from
\* word i on
CountTags(ws, i, stats) ==
    IF i > Len(ws) THEN stats
    ELSE CountTags(ws, i + 1,
            DictSet(stats, ws[i].speaker_tag, DictGet(stats, ws[i].speaker_tag, 0) + 1))

\* add_transcription_with_speakers(transcript, words_info, is_final), lines
\* 224-290: the statistics and the transcript as the call leaves them
add_transcription_with_speakers(ws, is_final, stats, shown) ==
    IF ws # << >> /\ is_final
    THEN [stats |-> CountTags(ws, 1, stats),
          shown |-> Append(shown, [kind |-> "final", words |-> ws])]
    ELSE IF is_final
         THEN [stats |-> stats, shown |-> Append(shown, [kind |-> "plain", words |-> << >>])]
         ELSE [stats |-> stats, shown |-> Append(shown, [kind |-> "interim", words |-> << >>])]

\* the program as constructed: nothing shown, nothing counted
InitResults == InitGoogle

\* what the handling of a result and the clear button leave alone
ResultFrame == <<global_speaker_mapping, next_global_speaker_id, google_results, diarization,
                 pyannote_results, combined, conversations, branch, raised, notWindow>>

\* lines 457-468: a result of the response stream, interim or final
GoogleResult(ws, is_final) ==
    /\ Len(transcript_text) < MaxResults
    /\ \E r \in {add_transcription_with_speakers(IF is_final THEN ws ELSE << >>, is_final,
                                                  speaker_stats, transcript_text)} :
          /\ speaker_stats' = r.stats
          /\ transcript_text' = r.shown
    /\ UNCHANGED ResultFrame

\* clear_transcription, lines 308-313
ClearTranscription ==
    /\ transcript_text' = << >>
    /\ speaker_stats' = EmptyDict
    /\ UNCHANGED ResultFrame

NextResults ==
    \/ \E ws \in ResultWords, is_final \in BOOLEAN : GoogleResult(ws, is_final)
    \/ ClearTranscription

SpecResults == InitResults /\ [][NextResults]_vars

RECURSIVE WordsShown(_, _, _)
\* the words of tag t in the final results of entries i.. of the transcript
WordsShown(shown, i, t) ==
    IF i > Len(shown) THEN 0
    ELSE Cardinality({k \in 1..Len(shown[i].words) : shown[i].words[k].speaker_tag = t})
         + WordsShown(shown, i + 1, t)

(* C39: in the streaming program interim results leave SpeakerStats         *)
(* unchanged and each final result adds exactly 1 to the count of its       *)
(* speaker tag for each of its words: after any sequence of results since   *)
(* the last clear the count of a tag is the number of words of that tag in  *)
(* the final results received, and the sum of the counts is the number of   *)
(* words in them.                                                           *)
C39_StatsCountFinalWords ==
    /\ DOMAIN speaker_stats \subseteq ResultTags
    /\ \A t \in ResultTags : DictGet(speaker_stats, t, 0) = WordsShown(transcript_text, 1, t)
    /\ SumDict(speaker_stats, DOMAIN speaker_stats)
          = WordsShown(transcript_text, 1, 1) + WordsShown(transcript_text, 1, 2)

\* since the last clear: a final result of two words of one speaker, an
\* interim result, and a final result with a word of each speaker
C39_Witness ==
    /\ Len(transcript_text) = 3
    /\ transcript_text[1].kind = "final"
    /\ transcript_text[2].kind = "interim"
    /\ transcript_text[3].kind = "final"
    /\ speaker_stats = (1 :> 3) @@ (2 :> 1)

====
